---------------------------- MODULE Spec2Model ----------------------------
(***************************************************************************)
(* ClauseLens: treaty-bidding simulation core.                             *)
(*                                                                         *)
(*   TreatyEnv.reset, step     src/src/simulate_env.py                     *)
(*   evaluate_bids,                                                        *)
(*   summarize_portfolio,                                                  *)
(*   stress_test_portfolio     src/src/evaluation.py                       *)
(*   MARLAgent                 src/src/marl_agents.py                      *)
(*   run_stress_test           src/experiments/stress_test.py              *)
(*   PolicyTrainer             src/src/policy_training.py                  *)
(*   DataLoader.load_treaties  src/src/data_loader.py                      *)
(*   training loop,                                                        *)
(*   checkpoint calls          src/experiments/train_marl.py               *)
(*   TreatyBiddingEnv          src/marl_engine/envs/treaty_env.py          *)
(*   MAPPOAgent buffer         src/marl_engine/agents/mappo_agent.py       *)
(*   run_simulation            src/scripts/03_run_simulation.py            *)
(*                                                                         *)
(* Units.  Monetary amounts are whole dollars.  Fractions and multipliers  *)
(* (quota shares, caps, margins, stress multipliers, random draws in       *)
(* [0,1)) are thousandths: 0.55 is 550, 1.5 is 1500.  Python dicts are     *)
(* records; a key that a dict does not hold is a field the record does not *)
(* have, so dict.get(key, default) is modelled by Get.  List indices are   *)
(* the 0-based indices of the code; Nth reads a list at such an index.     *)
(* Means are exact rationals <<numerator, denominator>> in lowest terms.   *)
(***************************************************************************)
EXTENDS Integers, Sequences, FiniteSets, TLC

VARIABLES
    agents,          \* list of MARLAgent objects: base_quota, base_margin, mode, epsilon
    treaty,          \* the treaty of the current call / episode (env.current_treaty)
    bid,             \* run_stress_test: the bid object of the loop at lines 98-103
    returned_bid,    \* the value that bid held when get_bid returned it
    applied,         \* how often the stress multipliers were applied to bid
    bids,            \* the list of bids of the current call / episode
    winner_idx,      \* result of TreatyEnv.step (0-based)
    reward,          \* result of TreatyEnv.step
    kpi,             \* the record returned by evaluate_bids
    ungated_kpi,     \* the value kpi held when evaluate_bids returned it
    episode_results, \* the list of records handed to summarize_portfolio
    stressed_results,\* the list stress_test_portfolio builds and hands to summarize_portfolio
    summary,         \* the dict returned by summarize_portfolio / stress_test_portfolio
    scenario,        \* run_stress_test: index into STRESS_SCENARIOS (1-based)
    ep,              \* run_stress_test: episode counter of the inner loop
    results_by_scenario, \* run_stress_test: the summaries of the finished scenarios
    pc,              \* position of the modelled call or loop
    scenarios,       \* stress_test.py: the list STRESS_SCENARIOS as the module holds it
    treaties,        \* PolicyTrainer.train: the list loader.load_treaties() returned
    rewards,         \* the update_policy calls of the latest update loop: agent index, reward
    completed,       \* number of episodes whose bid, step, evaluate cycle has completed
    agents_before,   \* the agents list as it was when the update loop began
    stream,          \* the values np.random yields after seed(42), as far as drawn
    rng_pos,         \* how many values np.random has yielded in this process
    outcomes,        \* all_ok of every record run_stress_test made in this call
    first_outcomes,  \* outcomes of the first call of run_stress_test
    run,             \* which call of run_stress_test this is, and in which process
    checkpoint,      \* the checkpoint file: Nil when there is none
    loaded,          \* the agents list built from the checkpoint
    path_exists,     \* DataLoader.load_treaties: os.path.exists(path) of the treaty file
    treaty_override, \* TreatyEnv.reset: the argument of the latest call, Nil for None
    max_steps,       \* TreatyBiddingEnv.max_steps
    current_step,    \* TreatyBiddingEnv.current_step
    agent_profits,   \* TreatyBiddingEnv.agent_profits, one entry per agent
    actions,         \* run_simulation: the actions array handed to env.step
    terminated,      \* run_simulation: the flag env.step returned
    truncated,       \* run_simulation: the flag env.step returned
    memory,          \* MAPPOAgent.memory
    batch_size       \* MAPPOAgent.update: the argument of the latest call

bidVars == <<bid, returned_bid, applied>>
stepVars == <<winner_idx, reward>>
kpiVars == <<kpi, ungated_kpi>>
portfolioVars == <<episode_results, stressed_results, summary>>
runVars == <<scenario, ep, results_by_scenario>>
cfgVars == <<scenarios, treaties>>
trainVars == <<rewards, completed, agents_before>>
rngVars == <<stream, rng_pos, outcomes, first_outcomes, run>>
ckptVars == <<checkpoint, loaded>>
simVars == <<path_exists, treaty_override, max_steps, current_step, agent_profits, actions,
            terminated, truncated, memory, batch_size>>
auxVars == <<cfgVars, trainVars, rngVars, ckptVars, simVars>>

vars == <<agents, treaty, bidVars, bids, stepVars, kpiVars, portfolioVars, runVars, pc,
          auxVars>>

-----------------------------------------------------------------------------
(* Bounds of the model *)

MaxBids == 4          \* longest bid list handed to TreatyEnv.step
MaxRecords == 3       \* longest record list handed to the aggregators
MaxApply == 2         \* applications of one scenario to one bid
MaxEpisodes == 2      \* num_episodes of run_stress_test
NumAgents == 2        \* agents of a stress run (NUM_AGENTS)

None == "None"           \* no number yet
Nil == [none |-> TRUE]   \* no dict yet

-----------------------------------------------------------------------------
(* Generic helpers *)

\* dict.get(key, default)
Get(d, key, default) == IF key \in DOMAIN d THEN d[key] ELSE default

\* lst[i] for a 0-based index i
Nth(lst, i) == lst[i + 1]

Min(a, b) == IF a <= b THEN a ELSE b
Max(a, b) == IF a >= b THEN a ELSE b
Abs(a) == IF a < 0 THEN -a ELSE a

\* x * (m / 1000) for a thousandths multiplier m, without leaving 32 bits
MulMilli(x, m) ==
    LET s == IF x < 0 THEN -1 ELSE 1
        a == Abs(x)
    IN  s * ((a \div 1000) * m + ((a % 1000) * m) \div 1000)

RECURSIVE Gcd(_, _)
Gcd(a, b) == IF b = 0 THEN a ELSE Gcd(b, a % b)

\* the rational n/d (d > 0) in lowest terms
Rat(n, d) == LET g == Gcd(Abs(n), d) IN <<n \div g, d \div g>>

RECURSIVE SumSeq(_)
SumSeq(s) == IF s = <<>> THEN 0 ELSE Head(s) + SumSeq(Tail(s))

-----------------------------------------------------------------------------
(* TreatyEnv.step: src/src/simulate_env.py *)

\* profits = [b["premium"] - b["expected_loss"] for b in bids]
Profits(bs) == [i \in 1..Len(bs) |-> bs[i].premium - bs[i].expected_loss]

\* np.argmax scans from the front and keeps the first maximum: the best index
\* changes only when a strictly larger value is seen.  i and best are 0-based.
RECURSIVE ArgMaxLastFrom(_, _, _)
ArgMaxLastFrom(xs, i, best) ==
    IF i >= Len(xs) THEN best
    ELSE ArgMaxLastFrom(xs, i + 1, IF Nth(xs, i) >= Nth(xs, best) THEN i ELSE best)

RECURSIVE ArgMaxFrom(_, _, _)
ArgMaxFrom(xs, i, best) ==
    IF i >= Len(xs) THEN best
    ELSE ArgMaxFrom(xs, i + 1, IF Nth(xs, i) > Nth(xs, best) THEN i ELSE best)

ArgMaxLast(xs) == ArgMaxLastFrom(xs, 1, 0)

ArgMax(xs) == ArgMaxFrom(xs, 1, 0)

\* TreatyEnv.step(bids) -> (winner_idx, reward)
StepResult(bs) ==
    IF bs = <<>> THEN <<0, 0>>
    ELSE LET profits == Profits(bs)
             w == ArgMax(profits)
         IN  <<w, Nth(profits, w)>>

\* Bids as TreatyEnv.step reads them: only premium and expected_loss matter.
StepBids ==
    [agent_id : {0}, quota_share : {300}, tail_risk : {40},
     premium : {100, 300, 350}, expected_loss : {0, 50}]

RECURSIVE SeqsUpTo(_, _)
SeqsUpTo(S, n) ==
    IF n = 0 THEN {<<>>}
    ELSE LET shorter == SeqsUpTo(S, n - 1)
         IN  shorter \cup {Append(s, x) : s \in {t \in shorter : Len(t) = n - 1}, x \in S}

\* The state of the variables a specification does not use.
NoAgents == agents = <<>>
NoTreaty == treaty = Nil
NoBid == bid = Nil /\ returned_bid = Nil /\ applied = 0
NoBids == bids = <<>>
NoStep == winner_idx = None /\ reward = None
NoKpi == kpi = Nil /\ ungated_kpi = Nil
NoResults == episode_results = <<>> /\ stressed_results = <<>> /\ summary = Nil
NoRun == scenario = 0 /\ ep = 0 /\ results_by_scenario = <<>>
NoConfig == scenarios = <<>> /\ treaties = <<>>
NoTrain == rewards = <<>> /\ completed = 0 /\ agents_before = <<>>
NoRng ==
    /\ stream = <<>> /\ rng_pos = 0 /\ outcomes = <<>> /\ first_outcomes = <<>>
    /\ run = [call |-> 0, process |-> 0]
NoCheckpoint == checkpoint = Nil /\ loaded = <<>>
NoSim ==
    /\ path_exists = TRUE
    /\ treaty_override = Nil /\ max_steps = 0 /\ current_step = 0
    /\ agent_profits = <<>> /\ actions = <<>>
    /\ terminated = FALSE /\ truncated = FALSE
    /\ memory = <<>> /\ batch_size = 0
NoAux == NoConfig /\ NoTrain /\ NoRng /\ NoCheckpoint /\ NoSim

\* A call of env.step(bids) on any list of at most MaxBids bids.
StepInit ==
    /\ bids \in SeqsUpTo(StepBids, MaxBids)
    /\ pc = "step"
    /\ NoAgents /\ NoTreaty /\ NoBid /\ NoStep /\ NoKpi /\ NoResults /\ NoRun
    /\ NoAux

Step ==
    /\ pc = "step"
    /\ winner_idx' = StepResult(bids)[1]
    /\ reward' = StepResult(bids)[2]
    /\ pc' = "step_done"
    /\ UNCHANGED auxVars
    /\ UNCHANGED <<agents, treaty, bidVars, bids, kpiVars, portfolioVars, runVars>>

StepNext == Step

SpecStep == StepInit /\ [][StepNext]_vars

\* C1: for every non-empty list of bids, step returns as winner_idx the smallest
\* index whose profit premium - expected_loss is the maximum over all bids, and
\* returns that bid's profit as the reward; profits [100,300,300,50] give winner 1.
C1_FirstArgMaxWins ==
    (pc = "step_done" /\ bids # <<>>) =>
        LET p(i) == Nth(bids, i).premium - Nth(bids, i).expected_loss
            idx == 0..(Len(bids) - 1)
        IN  /\ winner_idx \in idx
            /\ \A j \in idx : p(j) <= p(winner_idx)
            /\ \A j \in idx : j < winner_idx => p(j) < p(winner_idx)
            /\ reward = p(winner_idx)
            /\ (Len(bids) = 4 /\ <<p(0), p(1), p(2), p(3)>> = <<100, 300, 300, 50>>)
                   => winner_idx = 1

\* C1 witness: step has returned on a list with profits [100,300,300,50].
C1_Witness ==
    /\ pc = "step_done"
    /\ Len(bids) = 4
    /\ [i \in 1..4 |-> bids[i].premium - bids[i].expected_loss] = <<100, 300, 300, 50>>
    /\ winner_idx = 1
    /\ reward = 300

\* TreatyEnv(num_agents=3): the number of active agents of the environment.
num_agents == 3

\* C13: step treats a bid list whose length differs from the number of active
\* agents, the empty list included, as an error: it returns no winner index and
\* no reward.
C13_ArityMismatchIsError ==
    (pc = "step_done" /\ Len(bids) # num_agents) =>
        /\ winner_idx \notin Int
        /\ reward \notin Int

-----------------------------------------------------------------------------
(* evaluate_bids: src/src/evaluation.py *)

\* all(d.values()) over a dict of booleans
AllValues(d) == \A k \in DOMAIN d : d[k]

\* d with d[key] = value added or overwritten
With(d, key, value) ==
    [k \in DOMAIN d \cup {key} |-> IF k = key THEN value ELSE d[k]]

\* cvar = tail_risk, where tail_risk = winning_bid.get("tail_risk", expected_loss * 0.3)
CvarWithLoss(winning_bid) ==
    winning_bid.expected_loss
        + Get(winning_bid, "tail_risk", MulMilli(winning_bid.expected_loss, 300))

Cvar(winning_bid) ==
    Get(winning_bid, "tail_risk", MulMilli(winning_bid.expected_loss, 300))

\* The three individual checks (evaluation.py lines 40-44).  cvar <= exposure * 0.5
\* is compared as 2 * cvar <= exposure, which is the same comparison without halves.
QuotaShareOk(winning_bid, t) ==
    Get(winning_bid, "quota_share", 300) <= Get(t, "quota_share_cap", 1000)

PremiumOkLax(winning_bid) == winning_bid.premium >= winning_bid.expected_loss

PremiumOk(winning_bid) == winning_bid.premium > winning_bid.expected_loss

TailRiskOkZeroDefault(winning_bid, t) == 2 * Cvar(winning_bid) <= Get(t, "exposure", 0)

TailRiskOk(winning_bid, t) == 2 * Cvar(winning_bid) <= Get(t, "exposure", 1000000)

\* regulatory_flags["all_ok"] = all(regulatory_flags.values())
AllOk(flags) == AllValues(flags)

\* evaluate_bids(bids, winner_idx, treaty) -> {profit, cvar, regulatory_flags}
EvaluateBids(bs, w, t) ==
    LET winning_bid == Nth(bs, w)
        regulatory_flags ==
            [quota_share_ok |-> QuotaShareOk(winning_bid, t),
             premium_ok |-> PremiumOk(winning_bid),
             tail_risk_ok |-> TailRiskOk(winning_bid, t)]
    IN  [profit |-> winning_bid.premium - winning_bid.expected_loss,
         cvar |-> Cvar(winning_bid),
         regulatory_flags |-> With(regulatory_flags, "all_ok", AllOk(regulatory_flags))]

\* Bids handed to evaluate_bids: a dict may lack tail_risk or quota_share.
FullEvalBids ==
    [agent_id : {0}, quota_share : {300, 550}, tail_risk : {40, 300000},
     premium : {300, 1200000}, expected_loss : {100, 300, 950000}]

EvalBids ==
    FullEvalBids
        \cup [agent_id : {0}, quota_share : {300}, premium : {300},
              expected_loss : {100, 950000}]
        \cup [agent_id : {0}, tail_risk : {40}, premium : {300, 1200000},
              expected_loss : {100}]

\* Treaties as the core reads them (exposure, quota_share_cap); a treaty dict may
\* lack either key.
Treaties ==
    [exposure : {500000, 5000000}, quota_share_cap : {500, 1000}]
        \cup [exposure : {5000000}] \cup [quota_share_cap : {500}]

\* A call of evaluate_bids(bids, winner_idx, treaty) with winner_idx inside bids.
EvalInit ==
    /\ bids \in SeqsUpTo(EvalBids, 2) \ {<<>>}
    /\ winner_idx \in 0..1
    /\ winner_idx < Len(bids)
    /\ treaty \in Treaties
    /\ pc = "evaluate"
    /\ reward = None
    /\ NoAgents /\ NoBid /\ NoKpi /\ NoResults /\ NoRun
    /\ NoAux

Evaluate ==
    /\ pc = "evaluate"
    /\ kpi' = EvaluateBids(bids, winner_idx, treaty)
    /\ ungated_kpi' = kpi'
    /\ pc' = "evaluate_done"
    /\ UNCHANGED auxVars
    /\ UNCHANGED <<agents, treaty, bidVars, bids, stepVars, portfolioVars, runVars>>

EvalNext == Evaluate

SpecEval == EvalInit /\ [][EvalNext]_vars

\* C3: evaluate_bids returns a record whose profit is premium - expected_loss of
\* the bid at winner_idx and whose cvar is that bid's tail_risk, whatever the
\* treaty and the other bids; premium 1,200,000 and expected_loss 950,000 give
\* profit 250,000.
C3_ProfitAndCvar ==
    pc = "evaluate_done" =>
        LET b == Nth(bids, winner_idx)
        IN  /\ kpi.profit = b.premium - b.expected_loss
            /\ "tail_risk" \in DOMAIN b => kpi.cvar = b.tail_risk
            /\ (b.premium = 1200000 /\ b.expected_loss = 950000) => kpi.profit = 250000

\* C3 witness: the bid with premium 1,200,000 and expected_loss 950,000 was
\* evaluated as the second of two bids.
C3_Witness ==
    /\ pc = "evaluate_done"
    /\ winner_idx = 1
    /\ Nth(bids, 1).premium = 1200000
    /\ Nth(bids, 1).expected_loss = 950000
    /\ Nth(bids, 0).premium = 300
    /\ "tail_risk" \in DOMAIN Nth(bids, 1)
    /\ kpi.profit = 250000
    /\ kpi.cvar = Nth(bids, 1).tail_risk

\* C4: each flag of the record equals its definition: quota_share_ok iff
\* quota_share <= quota_share_cap, premium_ok iff premium > expected_loss,
\* tail_risk_ok iff cvar <= 0.5 * exposure; quota_share 0.55 against cap 0.5
\* gives quota_share_ok = false and all_ok = false.
C4_FlagsMatchDefinitions ==
    (/\ pc = "evaluate_done"
     /\ {"quota_share", "tail_risk"} \subseteq DOMAIN Nth(bids, winner_idx)
     /\ {"quota_share_cap", "exposure"} \subseteq DOMAIN treaty) =>
        LET b == Nth(bids, winner_idx)
            f == kpi.regulatory_flags
        IN  /\ f.quota_share_ok = (b.quota_share <= treaty.quota_share_cap)
            /\ f.premium_ok = (b.premium > b.expected_loss)
            /\ f.tail_risk_ok = (2 * kpi.cvar <= treaty.exposure)
            /\ (b.quota_share = 550 /\ treaty.quota_share_cap = 500)
                   => (~f.quota_share_ok /\ ~f.all_ok)

\* C4 witness: the bid of the example was evaluated against the treaty of the
\* example.
C4_Witness ==
    /\ pc = "evaluate_done"
    /\ treaty = [exposure |-> 5000000, quota_share_cap |-> 500]
    /\ Nth(bids, winner_idx) =
           [agent_id |-> 0, quota_share |-> 550, tail_risk |-> 300000,
            premium |-> 1200000, expected_loss |-> 950000]
    /\ kpi.profit = 250000
    /\ ~kpi.regulatory_flags.quota_share_ok
    /\ kpi.regulatory_flags.premium_ok
    /\ kpi.regulatory_flags.tail_risk_ok
    /\ ~kpi.regulatory_flags.all_ok

\* C22: a treaty without quota_share_cap or without exposure does not make
\* evaluate_bids raise: it returns a whole record, in which an absent
\* quota_share_cap counts as 1.0 and an absent exposure as 1,000,000, so that
\* tail_risk_ok is not false for every bid.
C22_MissingTreatyFieldsDefault ==
    pc = "evaluate_done" =>
        LET winning_bid == Nth(bids, winner_idx)
            flags == kpi.regulatory_flags
        IN  /\ DOMAIN kpi = {"profit", "cvar", "regulatory_flags"}
            /\ DOMAIN flags = {"quota_share_ok", "premium_ok", "tail_risk_ok", "all_ok"}
            /\ "quota_share_cap" \notin DOMAIN treaty =>
                   flags.quota_share_ok = (Get(winning_bid, "quota_share", 300) <= 1000)
            /\ "exposure" \notin DOMAIN treaty =>
                   /\ flags.tail_risk_ok = (kpi.cvar * 2 <= 1000000)
                   /\ kpi.cvar <= 300000 => flags.tail_risk_ok

\* C22 witness: a bid with tail_risk 300,000 and quota share 0.55 was evaluated
\* against a treaty without exposure and passes tail_risk_ok.
C22_Witness ==
    /\ pc = "evaluate_done"
    /\ "exposure" \notin DOMAIN treaty
    /\ kpi.cvar = 300000
    /\ kpi.regulatory_flags.tail_risk_ok
    /\ ~kpi.regulatory_flags.quota_share_ok

-----------------------------------------------------------------------------
(* summarize_portfolio and stress_test_portfolio: src/src/evaluation.py *)

Zero == <<0, 1>>   \* the literal 0 of the empty summaries

MeanFloor(xs) == <<SumSeq(xs) \div Len(xs), 1>>

\* float(np.mean(xs)) of a non-empty list
Mean(xs) == Rat(SumSeq(xs), Len(xs))

\* summarize_portfolio(episode_results)
SummarizePortfolio(results) ==
    IF results = <<>>
    THEN [avg_profit |-> Zero, avg_cvar |-> Zero, compliance_rate |-> Zero, episodes |-> 0]
    ELSE LET profits == [i \in 1..Len(results) |-> results[i].profit]
             cvars == [i \in 1..Len(results) |-> results[i].cvar]
             compliance == [i \in 1..Len(results) |->
                               IF results[i].regulatory_flags.all_ok THEN 1 ELSE 0]
         IN  [episodes |-> Len(results),
              avg_profit |-> Mean(profits),
              avg_cvar |-> Mean(cvars),
              compliance_rate |-> Mean(compliance)]

StressedRecordFreshAllOk(r, stress_factor) ==
    LET stressed_cvar == MulMilli(r.cvar, stress_factor)
        flags == [r.regulatory_flags EXCEPT
                     !.tail_risk_ok = (stressed_cvar <= MulMilli(r.cvar, 1500))]
    IN  [profit |-> r.profit,
         cvar |-> stressed_cvar,
         regulatory_flags |->
             [flags EXCEPT !.all_ok = flags.quota_share_ok /\ flags.premium_ok
                                          /\ flags.tail_risk_ok]]

\* One iteration of the loop of stress_test_portfolio (lines 93-103): the stressed
\* copy of ep.  flags is a copy of ep's flags that still holds ep's all_ok when
\* all(flags.values()) is taken.
StressedRecord(r, stress_factor) ==
    LET stressed_cvar == MulMilli(r.cvar, stress_factor)
        flags == [r.regulatory_flags EXCEPT
                     !.tail_risk_ok = (stressed_cvar <= MulMilli(r.cvar, 1500))]
    IN  [profit |-> r.profit,
         cvar |-> stressed_cvar,
         regulatory_flags |-> [flags EXCEPT !.all_ok = AllValues(flags)]]

StressedResults(results, stress_factor) ==
    [i \in 1..Len(results) |-> StressedRecord(results[i], stress_factor)]

InputAfterStressAliased(results, stress_factor) ==
    [i \in 1..Len(results) |->
        [results[i] EXCEPT
            !.regulatory_flags = StressedRecord(results[i], stress_factor).regulatory_flags]]

\* The list the caller passed, as it is when stress_test_portfolio returns: flags
\* is a copy of ep's flags dict (line 96) and the stressed record is a new dict
\* (lines 99-103), so no assignment of the loop reaches a dict of the input.
InputAfterStress(results, stress_factor) == results

\* stress_test_portfolio(episode_results, stress_factor), given the stressed list
StressTestPortfolio(results, stressed) ==
    IF results = <<>>
    THEN [avg_profit |-> Zero, avg_cvar |-> Zero, compliance_rate |-> Zero]
    ELSE SummarizePortfolio(stressed)

\* Records the aggregators are given: what evaluate_bids returns for these bids
\* and treaties.
PortfolioBids ==
    [agent_id : {0}, quota_share : {300, 550}, tail_risk : {40},
     premium : {100, 200, 300, 400}, expected_loss : {100}]
        \cup [agent_id : {0}, quota_share : {550}, tail_risk : {300000},
              premium : {1200000}, expected_loss : {950000}]

PortfolioTreaties ==
    {[exposure |-> 5000000, quota_share_cap |-> 500],
     [exposure |-> 500000, quota_share_cap |-> 1000]}

PortfolioRecords ==
    {EvaluateBids(<<b>>, 0, t) : b \in PortfolioBids, t \in PortfolioTreaties}

StressFactors == {1000, 1500, 2000}

\* A call of summarize_portfolio or stress_test_portfolio on any list of at most
\* MaxRecords records.
PortfolioInit ==
    /\ episode_results \in SeqsUpTo(PortfolioRecords, MaxRecords)
    /\ stressed_results = <<>>
    /\ summary = Nil
    /\ pc = "aggregate"
    /\ NoAgents /\ NoTreaty /\ NoBid /\ NoBids /\ NoStep /\ NoKpi /\ NoRun
    /\ NoAux

Summarize ==
    /\ pc = "aggregate"
    /\ summary' = SummarizePortfolio(episode_results)
    /\ pc' = "summarize_done"
    /\ UNCHANGED auxVars
    /\ UNCHANGED <<agents, treaty, bidVars, bids, stepVars, kpiVars, runVars,
                   episode_results, stressed_results>>

StressTest ==
    /\ pc = "aggregate"
    /\ \E stress_factor \in StressFactors :
          /\ stressed_results' = StressedResults(episode_results, stress_factor)
          /\ summary' = StressTestPortfolio(episode_results, stressed_results')
          /\ episode_results' = InputAfterStress(episode_results, stress_factor)
    /\ pc' = "stress_done"
    /\ UNCHANGED auxVars
    /\ UNCHANGED <<agents, treaty, bidVars, bids, stepVars, kpiVars, runVars>>

PortfolioNext == Summarize \/ StressTest

SpecPortfolio == PortfolioInit /\ [][PortfolioNext]_vars

\* The list that summarize_portfolio was last called on: by its caller, by
\* stress_test_portfolio (line 105), or by run_stress_test (line 120).
Summarized ==
    IF pc = "summarize_done" THEN episode_results
    ELSE IF pc = "stress_done" THEN stressed_results
    ELSE IF pc = "scenario" /\ scenario > 0 THEN episode_results
    ELSE <<>>

\* C2: every record that reaches summarize_portfolio has all_ok equal to the
\* logical AND of quota_share_ok, premium_ok and tail_risk_ok.
C2_AllOkIsConjunction ==
    \A i \in 1..Len(Summarized) :
        LET f == Summarized[i].regulatory_flags
        IN  f.all_ok = (f.quota_share_ok /\ f.premium_ok /\ f.tail_risk_ok)

\* C5: every aggregation entry point returns, on an empty list, the summary
\* episodes = 0, avg_profit = 0, avg_cvar = 0, compliance_rate = 0.
C5_EmptySummaryIsZero ==
    (pc \in {"summarize_done", "stress_done"} /\ episode_results = <<>>) =>
        /\ DOMAIN summary = {"episodes", "avg_profit", "avg_cvar", "compliance_rate"}
        /\ summary.episodes = 0
        /\ summary.avg_profit = Zero
        /\ summary.avg_cvar = Zero
        /\ summary.compliance_rate = Zero

RECURSIVE Total(_, _)
Total(xs, k) == IF k = 0 THEN 0 ELSE xs[k] + Total(xs, k - 1)

\* q = <<numerator, denominator>> is the rational a / b
IsRatio(q, a, b) == q[2] > 0 /\ q[1] * b = a * q[2]

\* C6: for a non-empty list of n records summarize_portfolio returns episodes = n,
\* avg_profit = (sum of profits)/n, avg_cvar = (sum of cvars)/n and
\* compliance_rate = (number of records with all_ok)/n, which lies in [0,1];
\* profits [100,200,300] give avg_profit 200.
C6_SummaryIsArithmeticMean ==
    (pc = "summarize_done" /\ episode_results # <<>>) =>
        LET n == Len(episode_results)
            profits == [i \in 1..n |-> episode_results[i].profit]
            cvars == [i \in 1..n |-> episode_results[i].cvar]
            passing == Cardinality({i \in 1..n : episode_results[i].regulatory_flags.all_ok})
        IN  /\ summary.episodes = n
            /\ IsRatio(summary.avg_profit, Total(profits, n), n)
            /\ IsRatio(summary.avg_cvar, Total(cvars, n), n)
            /\ IsRatio(summary.compliance_rate, passing, n)
            /\ 0 <= summary.compliance_rate[1]
            /\ summary.compliance_rate[1] <= summary.compliance_rate[2]
            /\ profits = <<100, 200, 300>> => summary.avg_profit = <<200, 1>>

\* C6 witness: three records with profits [100,200,300], two of them compliant,
\* were summarized.
C6_Witness ==
    /\ pc = "summarize_done"
    /\ Len(episode_results) = 3
    /\ [i \in 1..3 |-> episode_results[i].profit] = <<100, 200, 300>>
    /\ summary.episodes = 3
    /\ summary.avg_profit = <<200, 1>>
    /\ summary.compliance_rate = <<2, 3>>

RatLeq(a, b) == a[1] * b[2] <= b[1] * a[2]

\* C26: stress_test_portfolio never raises compliance: a record whose all_ok is
\* false stays false in the stressed copy, so the stressed compliance_rate is at
\* most the one summarize_portfolio gives for the same list; avg_profit is
\* unchanged and avg_cvar is the unstressed avg_cvar times stress_factor.
C26_StressNeverRaisesCompliance ==
    (pc = "stress_done" /\ episode_results # <<>>) =>
        LET n == Len(episode_results)
            base == SummarizePortfolio(episode_results)
        IN  /\ Len(stressed_results) = n
            /\ \A i \in 1..n :
                   ~episode_results[i].regulatory_flags.all_ok
                       => ~stressed_results[i].regulatory_flags.all_ok
            /\ RatLeq(summary.compliance_rate, base.compliance_rate)
            /\ summary.avg_profit = base.avg_profit
            /\ \E stress_factor \in StressFactors :
                   /\ \A i \in 1..n :
                          stressed_results[i].cvar * 1000
                              = episode_results[i].cvar * stress_factor
                   /\ LET g == Gcd(stress_factor, 1000)
                      IN  IsRatio(summary.avg_cvar,
                                  base.avg_cvar[1] * (stress_factor \div g),
                                  base.avg_cvar[2] * (1000 \div g))

\* C26 witness: a record that failed only tail_risk_ok was stressed; its stressed
\* copy passes tail_risk_ok and still has all_ok false, next to a compliant record.
C26_Witness ==
    /\ pc = "stress_done"
    /\ Len(episode_results) = 2
    /\ LET f == episode_results[1].regulatory_flags
           g == stressed_results[1].regulatory_flags
       IN  /\ f.quota_share_ok /\ f.premium_ok /\ ~f.tail_risk_ok /\ ~f.all_ok
           /\ g.tail_risk_ok /\ ~g.all_ok
    /\ episode_results[2].regulatory_flags.all_ok
    /\ stressed_results[2].regulatory_flags.all_ok
    /\ summary.compliance_rate = <<1, 2>>

-----------------------------------------------------------------------------
(* MARLAgent: src/src/marl_agents.py *)

\* Random draws.  random_sample() and rand() return u in [0,1); np.random.normal
\* returns loc + scale * z for a standard normal z.  u and z are thousandths.
Draws == {0, 999}
NormalDraws == {-4000, 0, 4000}

\* np.random.uniform(low, high) = low + (high - low) * u, also when high < low
Uniform(low, high, u) == low + MulMilli(high - low, u)

\* np.random.normal(loc, scale)
Normal(loc, scale, z) == loc + MulMilli(scale, z)

\* MARLAgent.__init__: base_quota = uniform(0.2, 0.5), base_margin = uniform(0.1, 0.3)
NewAgent(agent_id, mode, epsilon, uq, um) ==
    [agent_id |-> agent_id, mode |-> mode, epsilon |-> epsilon,
     base_quota |-> Uniform(200, 500, uq),
     base_margin |-> Uniform(100, 300, um)]

\* The draws of one get_bid call, in the order the code makes them.  The explore
\* draw rand() is made only in train mode (the `and` short-circuits), the quota
\* draw is uniform's u in the explore branch and normal's z in the exploit branch.
QuotaDraws(agent) ==
    LET exploit == [explore : {None}, branch : {"exploit"}, quota : NormalDraws]
    IN  IF agent.mode = "train"
        THEN UNION {IF e < agent.epsilon
                    THEN [explore : {e}, branch : {"explore"}, quota : Draws]
                    ELSE [explore : {e}, branch : {"exploit"}, quota : NormalDraws]
                    : e \in Draws}
        ELSE exploit

OtherDraws == [loss : Draws, margin : Draws, tail : Draws]

\* The quota share decision of get_bid (lines 44-50)
QuotaShare(agent, quota_cap, q) ==
    IF q.branch = "explore"
    THEN Uniform(100, quota_cap, q.quota)
    ELSE Min(quota_cap, Max(50, Normal(agent.base_quota, 50, q.quota)))

GetBidLearnedMargin(agent, t, q, d) ==
    LET exposure == Get(t, "exposure", 5000000)
        quota_cap == Get(t, "quota_share_cap", 500)
        expected_loss == MulMilli(exposure, Uniform(20, 60, d.loss))
        margin_factor == 1000 + agent.base_margin + MulMilli(50, d.margin)
    IN  [agent_id |-> agent.agent_id,
         quota_share |-> QuotaShare(agent, quota_cap, q),
         premium |-> MulMilli(expected_loss, margin_factor),
         expected_loss |-> expected_loss,
         tail_risk |-> MulMilli(expected_loss, Uniform(200, 500, d.tail))]

GetBidWideMargin(agent, t, q, d) ==
    LET exposure == Get(t, "exposure", 5000000)
        quota_cap == Get(t, "quota_share_cap", 500)
        expected_loss == MulMilli(exposure, Uniform(20, 60, d.loss))
        margin_factor == Uniform(1150, 1650, d.margin)
    IN  [agent_id |-> agent.agent_id,
         quota_share |-> QuotaShare(agent, quota_cap, q),
         premium |-> MulMilli(expected_loss, margin_factor),
         expected_loss |-> expected_loss,
         tail_risk |-> MulMilli(expected_loss, Uniform(200, 500, d.tail))]

\* MARLAgent.get_bid(treaty), with the draws q (quota decision) and d (the rest)
GetBid(agent, t, q, d) ==
    LET exposure == Get(t, "exposure", 5000000)
        quota_cap == Get(t, "quota_share_cap", 500)
        expected_loss == MulMilli(exposure, Uniform(20, 60, d.loss))
        margin_factor == Uniform(1150, 1350, d.margin)
    IN  [agent_id |-> agent.agent_id,
         quota_share |-> QuotaShare(agent, quota_cap, q),
         premium |-> MulMilli(expected_loss, margin_factor),
         expected_loss |-> expected_loss,
         tail_risk |-> MulMilli(expected_loss, Uniform(200, 500, d.tail))]

UpdatePolicyInverted(agent, r) ==
    IF r > 0
    THEN [agent EXCEPT !.base_quota = Max(50, @ - 10),
                       !.base_margin = Max(50, @ - 10)]
    ELSE [agent EXCEPT !.base_quota = Min(600, @ + 10),
                       !.base_margin = Min(350, @ + 10)]

\* MARLAgent.update_policy(reward)
UpdatePolicy(agent, r) ==
    IF r > 0
    THEN [agent EXCEPT !.base_quota = Min(600, @ + 10),
                       !.base_margin = Min(350, @ + 10)]
    ELSE [agent EXCEPT !.base_quota = Max(50, @ - 10),
                       !.base_margin = Max(50, @ - 10)]

\* Treaties an agent is asked to bid on.
AgentTreaties ==
    [exposure : {5000000}, quota_share_cap : {50, 1000}] \cup [exposure : {5000000}]

Rewards == {-40000, 0, 250000}

\* One freshly constructed agent, in demo or in train mode (epsilon 0.1).  Its
\* caller asks it for a bid and then rewards it, any number of times, as the
\* training loops do (get_bid, then update_policy; the bid is dropped when the
\* episode ends); update_policy may also be called without a bid.
AgentInit ==
    /\ \E mode \in {"demo", "train"}, uq \in Draws, um \in Draws :
          agents = <<NewAgent(0, mode, 100, uq, um)>>
    /\ pc = "agent"
    /\ NoTreaty /\ NoBid /\ NoBids /\ NoStep /\ NoKpi /\ NoResults /\ NoRun
    /\ NoAux

AgentGetBid ==
    /\ pc = "agent"
    /\ \E i \in 1..Len(agents), t \in AgentTreaties :
          \E q \in QuotaDraws(agents[i]), d \in OtherDraws :
              /\ treaty' = t
              /\ bid' = GetBid(agents[i], t, q, d)
    /\ returned_bid' = bid'
    /\ pc' = "agent_bid"
    /\ UNCHANGED auxVars
    /\ UNCHANGED <<agents, applied, bids, stepVars, kpiVars, portfolioVars, runVars>>

AgentUpdateWith(i, r) ==
    /\ pc \in {"agent", "agent_bid"}
    /\ agents' = [agents EXCEPT ![i] = UpdatePolicy(@, r)]
    /\ treaty' = Nil
    /\ bid' = Nil
    /\ returned_bid' = Nil
    /\ pc' = "agent"
    /\ UNCHANGED auxVars
    /\ UNCHANGED <<applied, bids, stepVars, kpiVars, portfolioVars, runVars>>

AgentUpdatePolicy == \E i \in 1..Len(agents), r \in Rewards : AgentUpdateWith(i, r)

AgentNext == AgentGetBid \/ AgentUpdatePolicy

SpecAgent == AgentInit /\ [][AgentNext]_vars

\* C7: for every treaty with quota_share_cap in (0,1] and every agent, in demo and
\* in train mode, in the explore and in the exploit branch, after any sequence of
\* update_policy calls, the bid get_bid returns has quota_share <= quota_share_cap.
C7_QuotaWithinCap ==
    (pc = "agent_bid" /\ "quota_share_cap" \in DOMAIN treaty) =>
        bid.quota_share <= treaty.quota_share_cap

\* C8: a positive reward never decreases base_quota or base_margin, a negative
\* reward never increases them, and after any sequence of update_policy calls on
\* a freshly constructed agent 0.05 <= base_quota <= 0.6 and
\* 0.05 <= base_margin <= 0.35.
C8_WithinBounds ==
    \A i \in 1..Len(agents) :
        /\ 50 <= agents[i].base_quota /\ agents[i].base_quota <= 600
        /\ 50 <= agents[i].base_margin /\ agents[i].base_margin <= 350

C8_Monotone ==
    \A i \in 1..Len(agents), r \in Rewards :
        AgentUpdateWith(i, r) =>
            /\ r > 0 => /\ agents'[i].base_quota >= agents[i].base_quota
                        /\ agents'[i].base_margin >= agents[i].base_margin
            /\ r < 0 => /\ agents'[i].base_quota <= agents[i].base_quota
                        /\ agents'[i].base_margin <= agents[i].base_margin

C8_UpdatePolicyMonotoneAndBounded == [](C8_WithinBounds) /\ [][C8_Monotone]_vars

\* C8 witness: update_policy calls have taken the agent from base_margin 0.299 to
\* the upper bound 0.35 and past it, while base_quota kept growing.
C8_Witness ==
    /\ pc = "agent"
    /\ agents[1].base_margin = 350
    /\ agents[1].base_quota = 569

\* The (expected_loss, premium, tail_risk) of a bid, and the set of those that
\* get_bid can return for an agent and a treaty, over all its draws.
Triple(b) == <<b.expected_loss, b.premium, b.tail_risk>>

BidOutcomes(agent, t) ==
    {Triple(GetBid(agent, t, q, d)) : q \in QuotaDraws(agent), d \in OtherDraws}

\* C28: the learned state influences only the quota share: the set of possible
\* (expected_loss, premium, tail_risk) of get_bid after any sequence of
\* update_policy calls is the set one freshly constructed agent has, with premium
\* between 1.15 and 1.35 times expected_loss and tail_risk between 0.2 and 0.5
\* times expected_loss; base_margin never affects a bid.
C28_LearningOnlyMovesQuota ==
    /\ pc = "agent" =>
           \A t \in AgentTreaties :
               BidOutcomes(agents[1], t)
                   = BidOutcomes(NewAgent(0, agents[1].mode, agents[1].epsilon, 0, 0), t)
    /\ pc = "agent_bid" =>
           /\ 1150 * bid.expected_loss <= 1000 * bid.premium
           /\ 1000 * bid.premium <= 1350 * bid.expected_loss
           /\ 200 * bid.expected_loss <= 1000 * bid.tail_risk
           /\ 1000 * bid.tail_risk <= 500 * bid.expected_loss

\* C28 witness: rewards have taken base_margin from at most 0.3 to its upper
\* bound 0.35 and base_quota up with it, and the agent then made a bid at the
\* top of the margin range.
C28_Witness ==
    /\ pc = "agent_bid"
    /\ agents[1].base_margin = 350
    /\ agents[1].base_quota = 569
    /\ bid.expected_loss = 295000
    /\ bid.premium = 397955

-----------------------------------------------------------------------------
(* run_stress_test: src/experiments/stress_test.py *)

STRESS_SCENARIOS ==
    <<[name |-> "High-Cat Frequency",
       loss_multiplier |-> 1500, tail_risk_multiplier |-> 1300, capital_shock |-> 1000],
      [name |-> "Capital Reduction 20%",
       loss_multiplier |-> 1000, tail_risk_multiplier |-> 1000, capital_shock |-> 800],
      [name |-> "Severe Tail Scenario",
       loss_multiplier |-> 1200, tail_risk_multiplier |-> 2000, capital_shock |-> 900]>>

\* data/sample_treaties.json as loaded at import: the treaties of the run.
SAMPLE_TREATIES ==
    <<[exposure |-> 5000000, quota_share_cap |-> 500],
      [exposure |-> 1000000, quota_share_cap |-> 300]>>

ApplyStressSwapped(b, sc) ==
    [b EXCEPT !.expected_loss = MulMilli(@, sc.tail_risk_multiplier),
              !.tail_risk = MulMilli(@, sc.loss_multiplier)]

\* bid["expected_loss"] *= loss_multiplier; bid["tail_risk"] *= tail_risk_multiplier
\* (lines 101-102): the bid dict itself is updated.
ApplyStress(b, sc) ==
    [b EXCEPT !.expected_loss = MulMilli(@, sc.loss_multiplier),
              !.tail_risk = MulMilli(@, sc.tail_risk_multiplier)]

\* The capital-shock gate (lines 111-116): kpi's own flags dict is updated, with
\* the draw u of np.random.rand(), which is made only when all_ok is true.
GateDraws(k, sc) ==
    IF sc.capital_shock < 1000 /\ k.regulatory_flags.all_ok THEN Draws ELSE {None}

CapitalShockGateImplies(k, sc, u) ==
    IF sc.capital_shock < 1000
    THEN [k EXCEPT !.regulatory_flags.all_ok = (@ => u < sc.capital_shock)]
    ELSE k

CapitalShockGate(k, sc, u) ==
    IF sc.capital_shock < 1000
    THEN [k EXCEPT !.regulatory_flags.all_ok = (@ /\ u < sc.capital_shock)]
    ELSE k

\* load_trained_agents without checkpoint files: MARLAgent(i), demo mode
\* (epsilon 0.1), for i in range(num_agents), with the draws u[i] of __init__.
LoadTrainedAgents(n, u) == [i \in 1..n |-> NewAgent(i - 1, "demo", 100, u[i], u[i])]

\* The draws of get_bid inside the stress run.
StressDraws == [loss : {0}, margin : Draws, tail : {0}]
StressQuotaDraws == [explore : {None}, branch : {"exploit"}, quota : {0}]

Init ==
    /\ \E u \in Draws : agents = LoadTrainedAgents(NumAgents, [i \in 1..NumAgents |-> u])
    /\ scenarios = STRESS_SCENARIOS
    /\ pc = "scenario"
    /\ NoTreaty /\ NoBid /\ NoBids /\ NoStep /\ NoKpi /\ NoResults /\ NoRun
    /\ treaties = <<>> /\ NoTrain /\ NoRng /\ NoCheckpoint /\ NoSim

\* for scenario in STRESS_SCENARIOS (lines 88-90), and the return at line 128
RunScenario ==
    /\ pc = "scenario"
    /\ IF scenario < Len(scenarios)
       THEN /\ scenario' = scenario + 1
            /\ episode_results' = <<>>
            /\ ep' = 0
            /\ completed' = 0
            /\ pc' = "episode"
       ELSE /\ pc' = "done"
            /\ UNCHANGED <<scenario, episode_results, ep, completed>>
    /\ UNCHANGED <<cfgVars, simVars, rewards, agents_before, rngVars, ckptVars>>
    /\ UNCHANGED <<agents, treaty, bidVars, bids, stepVars, kpiVars, stressed_results,
                   summary, results_by_scenario>>

\* for ep in range(num_episodes): treaty, env.reset(treaty_override=treaty), bids = []
\* (lines 92-97)
RunEpisode ==
    /\ pc = "episode"
    /\ ep < MaxEpisodes
    /\ treaty' = Nth(SAMPLE_TREATIES, ep % Len(SAMPLE_TREATIES))
    /\ bids' = <<>>
    /\ pc' = "get_bid"
    /\ UNCHANGED auxVars
    /\ UNCHANGED <<agents, bidVars, stepVars, kpiVars, portfolioVars, runVars>>

\* bid = agent.get_bid(state) for the next agent (line 99)
RunGetBid ==
    /\ pc = "get_bid"
    /\ \E q \in StressQuotaDraws, d \in StressDraws :
          bid' = GetBid(agents[Len(bids) + 1], treaty, q, d)
    /\ returned_bid' = bid'
    /\ applied' = 0
    /\ pc' = "stress"
    /\ UNCHANGED auxVars
    /\ UNCHANGED <<agents, treaty, bids, stepVars, kpiVars, portfolioVars, runVars>>

\* the stress multipliers and bids.append(bid) (lines 101-103)
RunApplyStress ==
    /\ pc = "stress"
    /\ bid' = ApplyStress(bid, scenarios[scenario])
    /\ applied' = applied + 1
    /\ bids' = Append(bids, bid')
    /\ pc' = IF Len(bids') < Len(agents) THEN "get_bid" ELSE "step"
    /\ UNCHANGED auxVars
    /\ UNCHANGED <<agents, treaty, returned_bid, stepVars, kpiVars, portfolioVars, runVars>>

\* winner_idx, _ = env.step(bids) (lines 106-107)
RunStep ==
    /\ pc = "step"
    /\ winner_idx' = StepResult(bids)[1]
    /\ reward' = StepResult(bids)[2]
    /\ pc' = "evaluate"
    /\ UNCHANGED auxVars
    /\ UNCHANGED <<agents, treaty, bidVars, bids, kpiVars, portfolioVars, runVars>>

\* kpi = evaluate_bids([winning_bid], winner_idx=0, treaty=state) (line 110)
RunEvaluate ==
    /\ pc = "evaluate"
    /\ kpi' = EvaluateBids(<<Nth(bids, winner_idx)>>, 0, treaty)
    /\ ungated_kpi' = kpi'
    /\ completed' = completed + 1
    /\ pc' = "gate"
    /\ UNCHANGED <<cfgVars, simVars, rewards, agents_before, rngVars, ckptVars>>
    /\ UNCHANGED <<agents, treaty, bidVars, bids, stepVars, portfolioVars, runVars>>

\* the capital-shock gate and scenario_results.append(kpi) (lines 111-118)
RunGateAndAppend ==
    /\ pc = "gate"
    /\ \E u \in GateDraws(kpi, scenarios[scenario]) :
          kpi' = CapitalShockGate(kpi, scenarios[scenario], u)
    /\ episode_results' = Append(episode_results, kpi')
    /\ ep' = ep + 1
    /\ pc' = "episode"
    /\ UNCHANGED auxVars
    /\ UNCHANGED <<agents, treaty, bidVars, bids, stepVars, ungated_kpi, stressed_results,
                   summary, scenario, results_by_scenario>>

\* summary = summarize_portfolio(scenario_results) after the last episode (lines 120-121)
RunSummarize ==
    /\ pc = "episode"
    /\ ep >= MaxEpisodes
    /\ summary' = SummarizePortfolio(episode_results)
    /\ results_by_scenario' = Append(results_by_scenario, summary')
    /\ pc' = "scenario"
    /\ UNCHANGED auxVars
    /\ UNCHANGED <<agents, treaty, bidVars, bids, stepVars, kpiVars, episode_results,
                   stressed_results, scenario, ep>>

Next ==
    \/ RunScenario
    \/ RunEpisode
    \/ RunGetBid
    \/ RunApplyStress
    \/ RunStep
    \/ RunEvaluate
    \/ RunGateAndAppend
    \/ RunSummarize

Spec == Init /\ [][Next]_vars

\* C10: the stress overlay never mutates its input: after the multipliers were
\* applied the bid object get_bid returned still has its original expected_loss
\* and tail_risk, and after the capital-shock gate the record evaluate_bids
\* returned still has its original all_ok.
C10_OverlayNeverMutatesInput ==
    /\ (bid # Nil /\ applied > 0) =>
           /\ bid.expected_loss = returned_bid.expected_loss
           /\ bid.tail_risk = returned_bid.tail_risk
    /\ kpi # Nil => kpi.regulatory_flags.all_ok = ungated_kpi.regulatory_flags.all_ok

\* C27: in run_stress_test, for a treaty with exposure > 0 and a scenario whose
\* loss_multiplier is at least 1.35 (High-Cat Frequency, 1.5), every winning bid
\* has premium <= stressed expected_loss, so every record has profit <= 0,
\* premium_ok false and all_ok false, and the scenario's compliance_rate is 0.
C27_HighLossScenarioNeverComplies ==
    /\ (scenario > 0 /\ scenarios[scenario].loss_multiplier >= 1350) =>
           /\ (pc = "evaluate" /\ treaty.exposure > 0) =>
                  Nth(bids, winner_idx).premium <= Nth(bids, winner_idx).expected_loss
           /\ \A i \in 1..Len(episode_results) :
                  /\ episode_results[i].profit <= 0
                  /\ ~episode_results[i].regulatory_flags.premium_ok
                  /\ ~episode_results[i].regulatory_flags.all_ok
    /\ \A s \in 1..Len(results_by_scenario) :
           scenarios[s].loss_multiplier >= 1350
               => results_by_scenario[s].compliance_rate = Zero

\* C27 witness: the High-Cat Frequency scenario has run all its episodes on
\* treaties with positive exposure, one of them won by a bid at the top of the
\* margin range, and was summarized with compliance_rate 0.
C27_Witness ==
    /\ pc = "scenario"
    /\ scenario = 1
    /\ scenarios[1].loss_multiplier = 1500
    /\ Len(episode_results) = MaxEpisodes
    /\ \E i \in 1..Len(episode_results) : episode_results[i].profit = -15100
    /\ Len(results_by_scenario) = 1
    /\ results_by_scenario[1].episodes = MaxEpisodes
    /\ results_by_scenario[1].compliance_rate = Zero

\* C11: the capital-shock gate can only make compliance harder: a record whose
\* all_ok is true after the gate had all_ok true before it, the gated record
\* differs from the record evaluate_bids returned in nothing but all_ok, and under
\* a scenario whose capital_shock is 1.0 the record is exactly that record.
C11_GateOnlyLowersCompliance ==
    kpi # Nil =>
        /\ kpi.regulatory_flags.all_ok => ungated_kpi.regulatory_flags.all_ok
        /\ kpi = [ungated_kpi EXCEPT
                      !.regulatory_flags.all_ok = kpi.regulatory_flags.all_ok]
        /\ scenarios[scenario].capital_shock = 1000 => kpi = ungated_kpi
        /\ (pc = "episode" /\ ep > 0) => episode_results[ep] = kpi

\* C11 witness: under capital_shock 0.8 the gate has failed a record that
\* evaluate_bids had found compliant, and the gated record was appended.
C11_Witness ==
    /\ pc = "episode"
    /\ kpi # Nil
    /\ scenarios[scenario].capital_shock = 800
    /\ ungated_kpi.regulatory_flags.all_ok
    /\ ~kpi.regulatory_flags.all_ok
    /\ ungated_kpi.regulatory_flags.premium_ok
    /\ ep > 0
    /\ episode_results[ep] = kpi

-----------------------------------------------------------------------------
(* run_stress_test over a STRESS_SCENARIOS list that holds other entries than
   the three of the file: the list is a module-level literal that the run reads
   as it is (lines 58-77, 88-90). *)

\* Scenario dicts a configuration can hold: the three of the file, and entries
\* with a negative multiplier or a capital_shock of 0 or above 1.
ConfigScenarios ==
    {STRESS_SCENARIOS[i] : i \in 1..Len(STRESS_SCENARIOS)}
    \cup {[name |-> "Negative Loss",
           loss_multiplier |-> -500, tail_risk_multiplier |-> 1000, capital_shock |-> 1000],
          [name |-> "Negative Tail",
           loss_multiplier |-> 1000, tail_risk_multiplier |-> -1000, capital_shock |-> 900],
          [name |-> "No Capital",
           loss_multiplier |-> 1000, tail_risk_multiplier |-> 1000, capital_shock |-> 0],
          [name |-> "Capital Increase",
           loss_multiplier |-> 1000, tail_risk_multiplier |-> 1000, capital_shock |-> 1200]}

ConfigInit ==
    /\ \E u \in Draws : agents = LoadTrainedAgents(NumAgents, [i \in 1..NumAgents |-> u])
    /\ \E sc \in ConfigScenarios : scenarios \in {<<sc>>, <<STRESS_SCENARIOS[2], sc>>}
    /\ pc = "scenario"
    /\ NoTreaty /\ NoBid /\ NoBids /\ NoStep /\ NoKpi /\ NoResults /\ NoRun
    /\ treaties = <<>> /\ NoTrain /\ NoRng /\ NoCheckpoint /\ NoSim

SpecConfig == ConfigInit /\ [][Next]_vars

\* C14: a scenario whose loss_multiplier or tail_risk_multiplier is negative, or
\* whose capital_shock lies outside (0, 1], is rejected when the scenarios are
\* loaded: with such a scenario in the list no episode is evaluated and no record
\* or summary is produced.
C14_MisconfiguredScenarioRejected ==
    (\E i \in 1..Len(scenarios) :
         \/ scenarios[i].loss_multiplier < 0
         \/ scenarios[i].tail_risk_multiplier < 0
         \/ scenarios[i].capital_shock <= 0
         \/ scenarios[i].capital_shock > 1000)
    => /\ completed = 0
       /\ kpi = Nil
       /\ episode_results = <<>>
       /\ results_by_scenario = <<>>

-----------------------------------------------------------------------------
(* The stress multipliers of run_stress_test (lines 101-102) applied to one bid
   more than once. *)

\* The draws of the get_bid call that makes the bid: values on which the
\* multiplications are exact in thousandths.
OverlayDraws == [loss : {0}, margin : Draws, tail : {0}]
OverlayQuotaDraws == [explore : {None}, branch : {"exploit"}, quota : NormalDraws]

OverlayInit ==
    /\ \E u \in Draws : agents = LoadTrainedAgents(1, <<u>>)
    /\ \E i \in 1..Len(SAMPLE_TREATIES) : treaty = SAMPLE_TREATIES[i]
    /\ \E q \in OverlayQuotaDraws, d \in OverlayDraws : bid = GetBid(agents[1], treaty, q, d)
    /\ returned_bid = bid
    /\ applied = 0
    /\ scenario \in 1..Len(STRESS_SCENARIOS)
    /\ ep = 0
    /\ results_by_scenario = <<>>
    /\ pc = "overlay"
    /\ NoBids /\ NoStep /\ NoKpi /\ NoResults
    /\ NoAux

OverlayApply ==
    /\ pc = "overlay"
    /\ applied < MaxApply
    /\ bid' = ApplyStress(bid, STRESS_SCENARIOS[scenario])
    /\ applied' = applied + 1
    /\ UNCHANGED auxVars
    /\ UNCHANGED <<agents, treaty, returned_bid, bids, stepVars, kpiVars, portfolioVars,
                   runVars, pc>>

OverlayNext == OverlayApply

SpecOverlay == OverlayInit /\ [][OverlayNext]_vars

\* C9: applying the same scenario twice to the same bid compounds: expected_loss
\* is the original times loss_multiplier squared and tail_risk the original times
\* tail_risk_multiplier squared; 1.5 applied twice to 100,000 gives 225,000.
C9_StressCompounds ==
    (pc = "overlay" /\ applied = 2) =>
        LET sc == STRESS_SCENARIOS[scenario]
            loss0 == returned_bid.expected_loss
            tail0 == returned_bid.tail_risk
        IN  /\ loss0 % 1000 = 0 /\ tail0 % 1000 = 0
            /\ bid.expected_loss * 1000
                   = (loss0 \div 1000) * sc.loss_multiplier * sc.loss_multiplier
            /\ bid.tail_risk * 1000
                   = (tail0 \div 1000) * sc.tail_risk_multiplier * sc.tail_risk_multiplier
            /\ (loss0 = 100000 /\ sc.loss_multiplier = 1500) => bid.expected_loss = 225000

\* C9 witness: loss_multiplier 1.5 was applied twice to expected_loss 100,000.
C9_Witness ==
    /\ pc = "overlay"
    /\ applied = 2
    /\ STRESS_SCENARIOS[scenario].loss_multiplier = 1500
    /\ returned_bid.expected_loss = 100000
    /\ bid.expected_loss = 225000
    /\ bid.tail_risk = 33800

-----------------------------------------------------------------------------
(* PolicyTrainer.train and the script that calls it: src/src/policy_training.py *)

MaxTrainEpisodes == 2   \* num_episodes of the trainer
TrainAgents == 2        \* num_agents of the trainer

\* data/sample_treaties.json as the trainer's loader can find it: the two
\* treaties of the stress run, a file whose second treaty has no exposure, and
\* an empty list.
TreatyFiles ==
    {SAMPLE_TREATIES,
     <<[exposure |-> 5000000, quota_share_cap |-> 500], [quota_share_cap |-> 500]>>,
     <<>>}

\* DataLoader.load_treaties (data_loader.py lines 40-51): a treaty without
\* "exposure" gets the string "Unknown" under that key.  The other keys the
\* loader fills in (cedent, peril, line_of_business, region, notes) are read by
\* none of the modelled code.
LoadTreaties(file) ==
    [i \in 1..Len(file) |->
        IF "exposure" \in DOMAIN file[i] THEN file[i]
        ELSE With(file[i], "exposure", "Unknown")]

\* create_agents(num_agents, mode, epsilon), with the draws u[i] of __init__
CreateAgents(n, mode, epsilon, u) ==
    [i \in 1..n |-> NewAgent(i - 1, mode, epsilon, u[i], u[i])]

\* get_bid line 42 multiplies a float by treaty.get("exposure", 5_000_000): with
\* the loader's "Unknown" that raises TypeError.
GetBidRaises(t) == ToString(Get(t, "exposure", 5000000)) = ToString("Unknown")

\* The draws of get_bid inside a training run.
TrainDraws == [loss : {0}, margin : Draws, tail : {0}]

TrainRewardAllProfit(i, w, k) == k.profit

\* reward = kpi["profit"] if i == winner_idx else -kpi["cvar"] (line 74)
TrainReward(i, w, k) == IF i = w THEN k.profit ELSE -k.cvar

\* After PolicyTrainer.__init__: nothing has run.
TrainInit ==
    /\ pc = "train_idle"
    /\ NoAgents /\ NoTreaty /\ NoBid /\ NoBids /\ NoStep /\ NoKpi /\ NoResults /\ NoRun
    /\ NoAux

\* treaties = self.loader.load_treaties(); agents = create_agents(...);
\* portfolio_results = [] (lines 60-63)
TrainStart ==
    /\ pc = "train_idle"
    /\ \E file \in TreatyFiles : treaties' = LoadTreaties(file)
    /\ \E u \in Draws :
          agents' = CreateAgents(TrainAgents, "train", 100, [i \in 1..TrainAgents |-> u])
    /\ episode_results' = <<>>
    /\ ep' = 0
    /\ pc' = "train_episode"
    /\ UNCHANGED <<treaty, bidVars, bids, stepVars, kpiVars, stressed_results, summary,
                   scenario, results_by_scenario>>
    /\ UNCHANGED <<scenarios, simVars, trainVars, rngVars, ckptVars>>

\* for ep in range(self.num_episodes): treaty = treaties[ep % len(treaties)]
\* (lines 67-68; the modulo raises ZeroDivisionError on an empty list), then
\* simulate_episode's env.reset(treaty_override=treaty) (lines 43-44)
TrainEpisode ==
    /\ pc = "train_episode"
    /\ ep < MaxTrainEpisodes
    /\ IF treaties = <<>>
       THEN /\ pc' = "raised"
            /\ UNCHANGED <<treaty, bids>>
       ELSE /\ treaty' = Nth(treaties, ep % Len(treaties))
            /\ bids' = <<>>
            /\ pc' = "train_get_bid"
    /\ UNCHANGED <<agents, bidVars, stepVars, kpiVars, portfolioVars, runVars>>
    /\ UNCHANGED auxVars

TrainGetBidMarksFailure ==
    /\ pc = "train_get_bid"
    /\ IF GetBidRaises(treaty)
       THEN /\ pc' = "raised"
            /\ episode_results' = Append(episode_results, Nil)
            /\ UNCHANGED bids
       ELSE /\ \E q \in QuotaDraws(agents[Len(bids) + 1]), d \in TrainDraws :
                  bids' = Append(bids, GetBid(agents[Len(bids) + 1], treaty, q, d))
            /\ pc' = IF Len(bids') < Len(agents) THEN "train_get_bid" ELSE "train_evaluate"
            /\ UNCHANGED episode_results
    /\ UNCHANGED <<agents, treaty, bidVars, stepVars, kpiVars, stressed_results, summary,
                   runVars>>
    /\ UNCHANGED auxVars

\* the next agent.get_bid(treaty) of bids = [agent.get_bid(treaty) for agent in
\* agents] (line 46); an exception leaves simulate_episode and train
TrainGetBid ==
    /\ pc = "train_get_bid"
    /\ IF GetBidRaises(treaty)
       THEN /\ pc' = "raised"
            /\ UNCHANGED bids
       ELSE /\ \E q \in QuotaDraws(agents[Len(bids) + 1]), d \in TrainDraws :
                  bids' = Append(bids, GetBid(agents[Len(bids) + 1], treaty, q, d))
            /\ pc' = IF Len(bids') < Len(agents) THEN "train_get_bid" ELSE "train_evaluate"
    /\ UNCHANGED <<agents, treaty, bidVars, stepVars, kpiVars, portfolioVars, runVars>>
    /\ UNCHANGED auxVars

\* profits, winner_idx = int(np.argmax(profits)), kpi = evaluate_bids(
\* [bids[winner_idx]], winner_idx=0, treaty=treaty), return (lines 47-50)
TrainEvaluate ==
    /\ pc = "train_evaluate"
    /\ winner_idx' = ArgMax(Profits(bids))
    /\ kpi' = EvaluateBids(<<Nth(bids, winner_idx')>>, 0, treaty)
    /\ ungated_kpi' = kpi'
    /\ completed' = completed + 1
    /\ pc' = "train_append"
    /\ UNCHANGED <<agents, treaty, bidVars, bids, reward, portfolioVars, runVars>>
    /\ UNCHANGED <<cfgVars, simVars, rewards, agents_before, rngVars, ckptVars>>

\* portfolio_results.append(kpi) (line 70); the update loop of lines 73-75 begins
TrainAppend ==
    /\ pc = "train_append"
    /\ episode_results' = Append(episode_results, kpi)
    /\ agents_before' = agents
    /\ rewards' = <<>>
    /\ pc' = "train_update"
    /\ UNCHANGED <<agents, treaty, bidVars, bids, stepVars, kpiVars, stressed_results,
                   summary, runVars>>
    /\ UNCHANGED <<cfgVars, simVars, completed, rngVars, ckptVars>>

\* the next agent.update_policy(reward) of the loop at lines 73-75
TrainUpdate ==
    /\ pc = "train_update"
    /\ LET i == Len(rewards) + 1
           r == TrainReward(i - 1, winner_idx, kpi)
       IN  /\ agents' = [agents EXCEPT ![i] = UpdatePolicy(@, r)]
           /\ rewards' = Append(rewards, [agent |-> i - 1, reward |-> r])
    /\ pc' = IF Len(rewards') < Len(agents) THEN "train_update" ELSE "train_log"
    /\ UNCHANGED <<treaty, bidVars, bids, stepVars, kpiVars, portfolioVars, runVars>>
    /\ UNCHANGED <<cfgVars, simVars, completed, agents_before, rngVars, ckptVars>>

\* the progress log of lines 78-85 (summarize_portfolio over the last ten
\* records, written to the logger only) and the end of the loop body
TrainLog ==
    /\ pc = "train_log"
    /\ ep' = ep + 1
    /\ pc' = "train_episode"
    /\ UNCHANGED <<agents, treaty, bidVars, bids, stepVars, kpiVars, portfolioVars,
                   scenario, results_by_scenario>>
    /\ UNCHANGED auxVars

TrainReturnEarly ==
    /\ pc = "train_episode"
    /\ ep >= MaxTrainEpisodes - 1
    /\ pc' = "train_returned"
    /\ UNCHANGED <<agents, treaty, bidVars, bids, stepVars, kpiVars, portfolioVars, runVars>>
    /\ UNCHANGED auxVars

\* return agents, portfolio_results (line 88)
TrainReturn ==
    /\ pc = "train_episode"
    /\ ep >= MaxTrainEpisodes
    /\ pc' = "train_returned"
    /\ UNCHANGED <<agents, treaty, bidVars, bids, stepVars, kpiVars, portfolioVars, runVars>>
    /\ UNCHANGED auxVars

\* summary = summarize_portfolio(results) of the calling script (line 133)
TrainMain ==
    /\ pc = "train_returned"
    /\ summary' = SummarizePortfolio(episode_results)
    /\ pc' = "done"
    /\ UNCHANGED <<agents, treaty, bidVars, bids, stepVars, kpiVars, episode_results,
                   stressed_results, runVars>>
    /\ UNCHANGED auxVars

TrainNext ==
    \/ TrainStart
    \/ TrainEpisode
    \/ TrainGetBid
    \/ TrainEvaluate
    \/ TrainAppend
    \/ TrainUpdate
    \/ TrainLog
    \/ TrainReturn
    \/ TrainMain

SpecTrain == TrainInit /\ [][TrainNext]_vars

\* C15: an exception inside one episode ends that episode only: the run goes on
\* with the following episodes and is not ended by the exception (the trainer has
\* no failure threshold that the one failure could exceed).
C15_EpisodeFailureIsContained == pc # "raised"

\* C23: a malformed treaty from the data source (exposure missing) is repaired
\* with a numeric default before it is used: every treaty load_treaties hands to
\* the training run carries a number under "exposure", so get_bid completes on it.
C23_MalformedTreatyRepaired ==
    \A i \in DOMAIN treaties :
        /\ "exposure" \in DOMAIN treaties[i]
        /\ ~GetBidRaises(treaties[i])

\* The positions of the loop body of train.
TrainRunning ==
    {"train_get_bid", "train_evaluate", "train_append", "train_update", "train_log"}

C16_RunShape ==
    /\ ep \in 0..MaxTrainEpisodes
    /\ Len(episode_results) <= MaxTrainEpisodes
    /\ pc = "train_idle" => (ep = 0 /\ episode_results = <<>>)
    /\ pc \in TrainRunning =>
           /\ ep < MaxTrainEpisodes
           /\ treaty = Nth(treaties, ep % Len(treaties))
           /\ Len(episode_results) = IF pc \in {"train_update", "train_log"}
                                     THEN ep + 1 ELSE ep
    /\ pc \in {"train_update", "train_log"} =>
           /\ kpi = EvaluateBids(<<Nth(bids, winner_idx)>>, 0, treaty)
           /\ episode_results[ep + 1] = kpi
    /\ pc = "train_episode" => Len(episode_results) = ep
    /\ pc \in {"train_returned", "done"} =>
           /\ ep = MaxTrainEpisodes
           /\ Len(episode_results) = MaxTrainEpisodes
    /\ summary # Nil => pc = "done"
    /\ pc = "done" =>
           /\ summary = SummarizePortfolio(episode_results)
           /\ summary.episodes = MaxTrainEpisodes

C16_InOrder ==
    /\ ep' \in {ep, ep + 1}
    /\ Len(episode_results') \in {Len(episode_results), Len(episode_results) + 1}
    /\ \A k \in 1..Len(episode_results) : episode_results'[k] = episode_results[k]

\* A natural number that every step of the run makes smaller: the episodes still
\* to run, then the steps still to make inside the episode.
C16_StepsLeft ==
    LET n == TrainAgents
        inEpisode ==
            CASE pc = "train_episode" -> 2 * n + 5
              [] pc = "train_get_bid" -> 2 * n + 4 - Len(bids)
              [] pc = "train_evaluate" -> n + 4
              [] pc = "train_append" -> n + 3
              [] pc = "train_update" -> n + 2 - Len(rewards)
              [] pc = "train_log" -> 2
              [] pc = "train_returned" -> 1
              [] OTHER -> 0
    IN  IF pc = "train_idle" THEN (MaxTrainEpisodes + 1) * (2 * n + 6)
        ELSE (MaxTrainEpisodes - ep) * (2 * n + 6) + inEpisode

C16_Progress == C16_StepsLeft \in Nat /\ C16_StepsLeft' < C16_StepsLeft

C16_Stops == (ENABLED TrainNext) \/ pc \in {"done", "raised"}

\* C16: a run of N episodes goes from idle through its episodes to done: it
\* terminates (every step leaves fewer steps to make, and the run stops only at
\* done or where an exception ends it), the episodes are taken in index order,
\* the k-th record of the list is the evaluation of the k-th episode and stays
\* it, at done the list holds exactly N records, and the final summary is
\* computed only then, over those N records.
C16_IdleRunningDone ==
    /\ [](C16_RunShape /\ C16_Stops)
    /\ [][C16_InOrder /\ C16_Progress]_vars

\* C16 witness: the run is done with N records and their summary.
C16_Witness ==
    /\ pc = "done"
    /\ ep = MaxTrainEpisodes
    /\ Len(episode_results) = MaxTrainEpisodes
    /\ summary.episodes = MaxTrainEpisodes
    /\ episode_results[1] # episode_results[2]

\* What C17 says of the update_policy calls, whatever their place in the episode.
C17_Calls ==
    LET n == Len(agents)
        Expected(j) == IF j - 1 = winner_idx THEN kpi.profit ELSE -kpi.cvar
    IN  /\ pc = "train_get_bid" => (Len(bids) < n /\ completed = ep)
        /\ pc \in {"train_get_bid", "train_evaluate"} =>
               \A j \in 1..Len(bids) : bids[j].agent_id = j - 1
        /\ pc = "train_evaluate" => (Len(bids) = n /\ completed = ep)
        /\ pc = "train_append" =>
               /\ completed = ep + 1
               /\ \A j \in 1..n :
                      bids[j].premium - bids[j].expected_loss
                          <= Nth(bids, winner_idx).premium
                                 - Nth(bids, winner_idx).expected_loss
               /\ kpi.profit = Nth(bids, winner_idx).premium
                                    - Nth(bids, winner_idx).expected_loss
        /\ pc = "train_update" => Len(rewards) < n
        /\ pc = "train_log" => Len(rewards) = n
        /\ pc \in {"train_update", "train_log"} =>
               /\ \A j \in 1..Len(rewards) :
                      /\ rewards[j].agent = j - 1
                      /\ rewards[j].reward = Expected(j)
               /\ \A j \in 1..n :
                      agents[j] = IF j <= Len(rewards)
                                  THEN UpdatePolicy(agents_before[j], rewards[j].reward)
                                  ELSE agents_before[j]
        /\ (pc \in {"train_episode", "train_get_bid", "train_evaluate", "train_append"}
                /\ ep > 0) =>
               /\ Len(rewards) = n
               /\ \A j \in 1..n :
                      agents[j] = UpdatePolicy(agents_before[j], rewards[j].reward)

\* C17 as stated: within an episode the order is reset, one get_bid per agent,
\* winner selection, evaluation, update_policy, append: the record of the episode
\* is in the list only when every agent has been updated; each agent is updated
\* exactly once, the winner with the record's profit and every other agent with
\* minus the record's cvar, and the agents enter the next episode as the updates
\* left them.
C17_UpdateThenAppend ==
    /\ C17_Calls
    /\ (pc \in TrainRunning /\ Len(episode_results) = ep + 1) =>
           (pc = "train_log" /\ Len(rewards) = Len(agents))

\* C17 amended: the order is reset, one get_bid per agent, winner selection,
\* evaluation, append, update_policy: the record of the episode is in the list
\* before the first update_policy call and while the calls are made; the rest is
\* as stated.
C17_AppendThenUpdate ==
    /\ C17_Calls
    /\ pc \in {"train_get_bid", "train_evaluate", "train_append"} =>
           Len(episode_results) = ep
    /\ pc \in {"train_update", "train_log"} =>
           (Len(episode_results) = ep + 1 /\ episode_results[ep + 1] = kpi)

\* C17 witness: in the second episode agent 1 has won and was rewarded with the
\* profit after agent 0 was given minus the cvar, and the record was in the list.
C17_Witness ==
    /\ pc = "train_log"
    /\ ep = 1
    /\ winner_idx = 1
    /\ rewards = <<[agent |-> 0, reward |-> -kpi.cvar], [agent |-> 1, reward |-> kpi.profit]>>
    /\ agents[1].base_quota = agents_before[1].base_quota - 10
    /\ agents[2].base_quota = agents_before[2].base_quota + 10
    /\ episode_results[2] = kpi

\* C20: no episode is half-recorded: wherever a run can stop, after its last
\* episode or where an exception interrupts an episode, the result list holds
\* exactly one whole record for each episode whose bid, step, evaluate cycle
\* completed and none for the interrupted one.
C20_NoHalfRecordedEpisode ==
    /\ pc \in {"raised", "train_returned", "done"} =>
           /\ Len(episode_results) = completed
           /\ \A k \in 1..Len(episode_results) :
                  DOMAIN episode_results[k] = {"profit", "cvar", "regulatory_flags"}
    /\ pc = "raised" => completed = ep
    /\ pc \in {"train_returned", "done"} => completed = MaxTrainEpisodes

\* C20 witness: the exception of get_bid has interrupted the second episode; the
\* list holds the record of the first.
C20_Witness ==
    /\ pc = "raised"
    /\ ep = 1
    /\ completed = 1
    /\ Len(episode_results) = 1
    /\ episode_results[1] = kpi

-----------------------------------------------------------------------------
(* Checkpoints: PolicyTrainer.save_agents / load_agents (policy_training.py),
   the agent.save calls of train_marl.py and load_trained_agents of
   stress_test.py *)

\* json.dump / json.load of a float: the decimal text of the number, here the
\* integer part and the three decimals of a thousandths value.
JsonDump(x) == <<x \div 1000, (x % 1000) \div 100, (x % 100) \div 10, x % 10>>
JsonLoad(text) == text[1] * 1000 + text[2] * 100 + text[3] * 10 + text[4]

\* agents_data of save_agents (lines 97-100), as written to the file
AgentsData(ags) ==
    [i \in 1..Len(ags) |->
        [agent_id |-> ags[i].agent_id,
         base_quota |-> JsonDump(ags[i].base_quota),
         base_margin |-> JsonDump(ags[i].base_margin)]]

\* the loop of load_agents (lines 115-120): MARLAgent(agent_id, mode="demo") with
\* the draws u[i] of __init__, then base_quota and base_margin from the file
LoadedAgents(data, u) ==
    [i \in 1..Len(data) |->
        [NewAgent(data[i].agent_id, "demo", 100, u[i], u[i])
            EXCEPT !.base_quota = JsonLoad(data[i].base_quota),
                   !.base_margin = JsonLoad(data[i].base_margin)]]

\* The attributes MARLAgent defines (marl_agents.py lines 15-84).
MARLAgentMethods == {"get_bid", "update_policy", "__repr__"}

\* Agents as a training run leaves them.
TrainedAgents ==
    [agent_id : {0}, mode : {"train", "demo"}, epsilon : {100},
     base_quota : {50, 355, 600}, base_margin : {50, 299}]

CheckpointInit ==
    /\ \E a \in TrainedAgents, b \in TrainedAgents :
          agents = <<a, [b EXCEPT !.agent_id = 1]>>
    /\ pc = "trained"
    /\ NoTreaty /\ NoBid /\ NoBids /\ NoStep /\ NoKpi /\ NoResults /\ NoRun
    /\ NoAux

\* PolicyTrainer.save_agents(agents) (lines 93-104): one file marl_agents.json
SaveAgents ==
    /\ pc = "trained"
    /\ checkpoint' = [file |-> "marl_agents.json", data |-> AgentsData(agents)]
    /\ pc' = "saved"
    /\ UNCHANGED <<agents, treaty, bidVars, bids, stepVars, kpiVars, portfolioVars, runVars>>
    /\ UNCHANGED <<cfgVars, simVars, trainVars, rngVars, loaded>>

\* PolicyTrainer.load_agents() (lines 106-123): FileNotFoundError without the file
LoadAgents ==
    /\ pc \in {"trained", "saved"}
    /\ IF checkpoint = Nil
       THEN /\ pc' = "not_found"
            /\ UNCHANGED loaded
       ELSE /\ \E u \in Draws :
                  loaded' = LoadedAgents(checkpoint.data,
                                         [i \in 1..Len(checkpoint.data) |-> u])
            /\ pc' = "loaded"
    /\ UNCHANGED <<agents, treaty, bidVars, bids, stepVars, kpiVars, portfolioVars, runVars>>
    /\ UNCHANGED <<cfgVars, simVars, trainVars, rngVars, checkpoint>>

\* for agent in agents: agent.save(agent_path) (train_marl.py lines 89-91): the
\* first call raises AttributeError when MARLAgent has no attribute save
AgentSave ==
    /\ pc = "trained"
    /\ IF "save" \in MARLAgentMethods
       THEN /\ checkpoint' = [file |-> "marl_agent_{i}.json", data |-> AgentsData(agents)]
            /\ pc' = "saved"
       ELSE /\ pc' = "save_raised"
            /\ UNCHANGED checkpoint
    /\ UNCHANGED <<agents, treaty, bidVars, bids, stepVars, kpiVars, portfolioVars, runVars>>
    /\ UNCHANGED <<cfgVars, simVars, trainVars, rngVars, loaded>>

\* load_trained_agents() (stress_test.py lines 42-52): MARLAgent(i) for each i;
\* where marl_agent_{i}.json exists, agent.load_parameters(params), which raises
\* AttributeError when MARLAgent has no such attribute; otherwise the agent stays
\* as __init__ drew it
StressLoadAgents ==
    /\ pc \in {"trained", "saved"}
    /\ IF checkpoint # Nil /\ checkpoint.file = "marl_agent_{i}.json"
       THEN IF "load_parameters" \in MARLAgentMethods
            THEN /\ \E u \in Draws :
                       loaded' = LoadedAgents(checkpoint.data,
                                              [i \in 1..Len(checkpoint.data) |-> u])
                 /\ pc' = "loaded"
            ELSE /\ pc' = "load_raised"
                 /\ UNCHANGED loaded
       ELSE /\ \E u \in Draws :
                  loaded' = LoadTrainedAgents(Len(agents), [i \in 1..Len(agents) |-> u])
            /\ pc' = "loaded"
    /\ UNCHANGED <<agents, treaty, bidVars, bids, stepVars, kpiVars, portfolioVars, runVars>>
    /\ UNCHANGED <<cfgVars, simVars, trainVars, rngVars, checkpoint>>

CheckpointNext ==
    \/ SaveAgents
    \/ LoadAgents
    \/ AgentSave
    \/ StressLoadAgents

SpecCheckpoint == CheckpointInit /\ [][CheckpointNext]_vars

\* C18: exporting the parameters of a list of agents and loading them into fresh
\* agents is a round trip: the export does not fail, and after a load that
\* follows an export there are as many loaded agents as exported ones, in the
\* same order, each with the agent_id, base_quota and base_margin of the agent
\* it was exported from.
C18_ExportLoadRoundTrip ==
    /\ pc \notin {"save_raised", "load_raised"}
    /\ (pc = "loaded" /\ checkpoint # Nil) =>
           /\ Len(loaded) = Len(agents)
           /\ \A i \in 1..Len(agents) :
                  /\ loaded[i].agent_id = agents[i].agent_id
                  /\ loaded[i].base_quota = agents[i].base_quota
                  /\ loaded[i].base_margin = agents[i].base_margin

-----------------------------------------------------------------------------
(* The update_policy calls that end an episode (policy_training.py lines 73-75,
   train_marl.py lines 74-76), made on the agents in any order. *)

UpdateRecords ==
    {EvaluateBids(<<b>>, 0, SAMPLE_TREATIES[1]) : b \in {c \in PortfolioBids : c.premium < 500}}

\* The agents that update_policy has been called on since the episode's record
\* was made (0-based agent indices).
Updated == {rewards[j].agent : j \in 1..Len(rewards)}

UpdateOrderInit ==
    /\ \E a \in [1..TrainAgents -> {t \in TrainedAgents : t.mode = "train"}] :
          agents = [i \in 1..TrainAgents |-> [a[i] EXCEPT !.agent_id = i - 1]]
    /\ agents_before = agents
    /\ winner_idx \in 0..(TrainAgents - 1)
    /\ reward = None
    /\ kpi \in UpdateRecords
    /\ ungated_kpi = kpi
    /\ rewards = <<>>
    /\ completed = 0
    /\ pc = "update_any"
    /\ NoTreaty /\ NoBid /\ NoBids /\ NoResults /\ NoRun
    /\ NoConfig /\ NoRng /\ NoCheckpoint /\ NoSim

UpdateAgentShared(i) ==
    /\ pc = "update_any"
    /\ (i - 1) \notin Updated
    /\ LET r == TrainReward(i - 1, winner_idx, kpi)
       IN  /\ agents' = [j \in 1..Len(agents) |->
                           [agents[j] EXCEPT
                               !.base_quota = UpdatePolicy(agents[i], r).base_quota]]
           /\ rewards' = Append(rewards, [agent |-> i - 1, reward |-> r])
    /\ UNCHANGED <<treaty, bidVars, bids, stepVars, kpiVars, portfolioVars, runVars, pc>>
    /\ UNCHANGED <<cfgVars, simVars, completed, agents_before, rngVars, ckptVars>>

\* reward = kpi["profit"] if i == winner_idx else -kpi["cvar"];
\* agent.update_policy(reward), for an agent not yet updated in this episode
UpdateAgent(i) ==
    /\ pc = "update_any"
    /\ (i - 1) \notin Updated
    /\ LET r == TrainReward(i - 1, winner_idx, kpi)
       IN  /\ agents' = [agents EXCEPT ![i] = UpdatePolicy(@, r)]
           /\ rewards' = Append(rewards, [agent |-> i - 1, reward |-> r])
    /\ UNCHANGED <<treaty, bidVars, bids, stepVars, kpiVars, portfolioVars, runVars, pc>>
    /\ UNCHANGED <<cfgVars, simVars, completed, agents_before, rngVars, ckptVars>>

UpdateOrderNext == \E i \in 1..Len(agents) : UpdateAgent(i)

SpecUpdateOrder == UpdateOrderInit /\ [][UpdateOrderNext]_vars

\* C19: agents share no hidden state: an update_policy call on one agent leaves
\* every other agent as it was, so after any calls, in whatever order they were
\* made, each updated agent is what update_policy makes of its own earlier state
\* and its own reward, and each other agent is unchanged; once all are updated
\* the agents are the same for every order.
C19_NoSharedState ==
    pc = "update_any" =>
        \A i \in 1..Len(agents) :
            agents[i] = IF (i - 1) \in Updated
                        THEN UpdatePolicy(agents_before[i],
                                          IF i - 1 = winner_idx THEN kpi.profit
                                          ELSE -kpi.cvar)
                        ELSE agents_before[i]

\* C19 witness: the last agent was updated before the first one, the first as
\* the winner, and every agent has been updated.
C19_Witness ==
    /\ pc = "update_any"
    /\ Len(rewards) = Len(agents)
    /\ rewards[1].agent = Len(agents) - 1
    /\ rewards[Len(rewards)].agent = 0
    /\ winner_idx = 0
    /\ agents[1].base_quota = agents_before[1].base_quota + 10
    /\ agents[Len(agents)].base_quota = agents_before[Len(agents)].base_quota - 10

-----------------------------------------------------------------------------
(* run_stress_test with the generator of np.random made explicit: the module
   seeds it once, at import (stress_test.py line 33); MARLAgent.__init__, get_bid
   and the capital-shock gate all draw from it. *)

\* After np.random.seed(42) the generator yields one fixed sequence of values.
\* stream holds that sequence as far as it has been drawn, rng_pos counts the
\* values the current process has drawn.  A block of draws whose j-th value lies
\* in allowed[j]: where the sequence is already known the value is the known
\* one, beyond it the value is any allowed one.
DrawBlocks(allowed) ==
    {us \in [1..Len(allowed) -> UNION {allowed[j] : j \in 1..Len(allowed)}] :
        \A j \in 1..Len(allowed) :
            /\ us[j] \in allowed[j]
            /\ rng_pos + j <= Len(stream) => us[j] = stream[rng_pos + j]}

\* The sequence after the block us was drawn.
StreamAfter(us) ==
    IF rng_pos + Len(us) <= Len(stream) THEN stream
    ELSE SubSeq(stream, 1, rng_pos) \o us

\* The draws of MARLAgent.__init__ (lines 26-27) for n agents, of one get_bid in
\* demo mode (lines 42, 50, 53, 57) for n agents, and of the gate.
SeededInitDraws(n) == [j \in 1..(2 * n) |-> {0}]
SeededBidDraws(n) ==
    [j \in 1..(4 * n) |-> IF j % 4 = 3 THEN {999} ELSE {0}]

\* load_trained_agents without checkpoint files, from the block us
SeededAgents(n, us) ==
    [i \in 1..n |-> NewAgent(i - 1, "demo", 100, us[2 * i - 1], us[2 * i])]

\* The bids of one episode (lines 97-103) from the block us: get_bid of every
\* agent, then the stress multipliers.
SeededBids(ags, t, sc, us) ==
    [i \in 1..Len(ags) |->
        ApplyStress(GetBid(ags[i], t,
                           [explore |-> None, branch |-> "exploit", quota |-> us[4 * i - 2]],
                           [loss |-> us[4 * i - 3], margin |-> us[4 * i - 1],
                            tail |-> us[4 * i]]),
                    sc)]

\* A fresh process has imported the module: the generator is seeded, nothing is
\* drawn, run_stress_test is called for the first time.
SeededInit ==
    /\ scenarios = STRESS_SCENARIOS
    /\ stream = <<>>
    /\ rng_pos = 0
    /\ outcomes = <<>>
    /\ first_outcomes = <<>>
    /\ run = [call |-> 1, process |-> 1]
    /\ pc = "seeded_load"
    /\ NoAgents /\ NoTreaty /\ NoBid /\ NoBids /\ NoStep /\ NoKpi /\ NoResults /\ NoRun
    /\ treaties = <<>> /\ NoTrain /\ NoCheckpoint /\ NoSim

\* agents = load_trained_agents() (line 84)
SeededLoadAgents ==
    /\ pc = "seeded_load"
    /\ \E us \in DrawBlocks(SeededInitDraws(NumAgents)) :
          /\ agents' = SeededAgents(NumAgents, us)
          /\ stream' = StreamAfter(us)
          /\ rng_pos' = rng_pos + Len(us)
    /\ pc' = "seeded_scenario"
    /\ UNCHANGED <<treaty, bidVars, bids, stepVars, kpiVars, portfolioVars, runVars>>
    /\ UNCHANGED <<cfgVars, simVars, trainVars, outcomes, first_outcomes, run, ckptVars>>

\* for scenario in STRESS_SCENARIOS (lines 88-90), and the return at line 128
SeededScenario ==
    /\ pc = "seeded_scenario"
    /\ IF scenario < Len(scenarios)
       THEN /\ scenario' = scenario + 1
            /\ episode_results' = <<>>
            /\ ep' = 0
            /\ pc' = "seeded_episode"
       ELSE /\ pc' = "seeded_done"
            /\ UNCHANGED <<scenario, episode_results, ep>>
    /\ UNCHANGED <<agents, treaty, bidVars, bids, stepVars, kpiVars, stressed_results,
                   summary, results_by_scenario>>
    /\ UNCHANGED auxVars

\* one episode up to its record (lines 92-110): treaty, the stressed bids of all
\* agents, env.step, evaluate_bids
SeededEpisode ==
    /\ pc = "seeded_episode"
    /\ ep < MaxEpisodes
    /\ treaty' = Nth(SAMPLE_TREATIES, ep % Len(SAMPLE_TREATIES))
    /\ \E us \in DrawBlocks(SeededBidDraws(Len(agents))) :
          /\ bids' = SeededBids(agents, treaty', scenarios[scenario], us)
          /\ stream' = StreamAfter(us)
          /\ rng_pos' = rng_pos + Len(us)
    /\ winner_idx' = StepResult(bids')[1]
    /\ reward' = StepResult(bids')[2]
    /\ kpi' = EvaluateBids(<<Nth(bids', winner_idx')>>, 0, treaty')
    /\ ungated_kpi' = kpi'
    /\ pc' = "seeded_gate"
    /\ UNCHANGED <<agents, bidVars, portfolioVars, runVars>>
    /\ UNCHANGED <<cfgVars, simVars, trainVars, outcomes, first_outcomes, run, ckptVars>>

\* the capital-shock gate and scenario_results.append(kpi) (lines 111-118);
\* np.random.rand() is called only when capital_shock < 1.0 and all_ok is true
SeededGate ==
    /\ pc = "seeded_gate"
    /\ LET sc == scenarios[scenario]
           allowed == IF sc.capital_shock < 1000 /\ kpi.regulatory_flags.all_ok
                      THEN <<Draws>> ELSE <<>>
       IN  \E us \in DrawBlocks(allowed) :
              /\ kpi' = CapitalShockGate(kpi, sc, IF us = <<>> THEN None ELSE us[1])
              /\ stream' = StreamAfter(us)
              /\ rng_pos' = rng_pos + Len(us)
              /\ outcomes' = Append(outcomes,
                                    [capital_shock |-> sc.capital_shock, ep |-> ep,
                                     all_ok |-> kpi'.regulatory_flags.all_ok])
    /\ episode_results' = Append(episode_results, kpi')
    /\ ep' = ep + 1
    /\ pc' = "seeded_episode"
    /\ UNCHANGED <<agents, treaty, bidVars, bids, stepVars, ungated_kpi, stressed_results,
                   summary, scenario, results_by_scenario>>
    /\ UNCHANGED <<cfgVars, simVars, trainVars, first_outcomes, run, ckptVars>>

\* summary = summarize_portfolio(scenario_results) after the last episode (lines 120-121)
SeededSummarize ==
    /\ pc = "seeded_episode"
    /\ ep >= MaxEpisodes
    /\ summary' = SummarizePortfolio(episode_results)
    /\ results_by_scenario' = Append(results_by_scenario, summary')
    /\ pc' = "seeded_scenario"
    /\ UNCHANGED <<agents, treaty, bidVars, bids, stepVars, kpiVars, episode_results,
                   stressed_results, scenario, ep>>
    /\ UNCHANGED auxVars

\* A second call of run_stress_test: its locals are new.  In the process of the
\* first call the generator goes on where that call left it; in a new process
\* the import seeds it again (line 33), which restarts the same sequence.
SeededCallAgain(process) ==
    /\ pc = "seeded_done"
    /\ run.call = 1
    /\ run' = [call |-> 2, process |-> process]
    /\ rng_pos' = IF process = run.process THEN rng_pos ELSE 0
    /\ first_outcomes' = outcomes
    /\ outcomes' = <<>>
    /\ agents' = <<>>
    /\ treaty' = Nil
    /\ bids' = <<>>
    /\ winner_idx' = None
    /\ reward' = None
    /\ kpi' = Nil
    /\ ungated_kpi' = Nil
    /\ episode_results' = <<>>
    /\ summary' = Nil
    /\ scenario' = 0
    /\ ep' = 0
    /\ results_by_scenario' = <<>>
    /\ pc' = "seeded_load"
    /\ UNCHANGED <<bidVars, stressed_results, cfgVars, simVars, trainVars, stream, ckptVars>>

SeededRepeatInProcess == SeededCallAgain(1)

SeededRepeatInNewProcess == SeededCallAgain(2)

SeededNext ==
    \/ SeededLoadAgents
    \/ SeededScenario
    \/ SeededEpisode
    \/ SeededGate
    \/ SeededSummarize
    \/ SeededRepeatInProcess
    \/ SeededRepeatInNewProcess

SpecSeeded == SeededInit /\ [][SeededNext]_vars

\* The all_ok outcomes of the episodes run under capital_shock 0.8.
Shock800(os) == SelectSeq(os, LAMBDA o : o.capital_shock = 800)

\* C12: the capital-shock gate is reproducible under the fixed seed: a second run
\* with the same treaties and the same seed gives every episode under
\* capital_shock 0.8 the all_ok of the first run, also when the run is repeated
\* inside one process.
C12_GateReproducible ==
    (pc = "seeded_done" /\ run.call = 2) =>
        Shock800(outcomes) = Shock800(first_outcomes)

-----------------------------------------------------------------------------
(* TreatyEnv.reset: src/src/simulate_env.py lines 27-35 *)

\* The empty dict {}.
EmptyDict == [k \in {} |-> 0]

\* Python truth value of the argument: None and {} are false.
Truthy(d) == d # Nil /\ DOMAIN d # {}

\* What reset can be handed: nothing (None), the empty dict, or a treaty.
Overrides ==
    {Nil, EmptyDict}
        \cup [exposure : {500000, 1000000, 5000000}, quota_share_cap : {300, 500, 1000}]
        \cup [exposure : {5000000}] \cup [quota_share_cap : {500}]

\* An environment right after __init__ (current_treaty = None, line 22);
\* treaties is the content of the treaty file self.loader reads, if it exists.
ResetInit ==
    /\ pc = "reset_idle"
    /\ treaties \in TreatyFiles
    /\ path_exists \in BOOLEAN
    /\ NoAgents /\ NoTreaty /\ NoBid /\ NoBids /\ NoStep /\ NoKpi /\ NoResults /\ NoRun
    /\ scenarios = <<>> /\ NoTrain /\ NoRng /\ NoCheckpoint
    /\ treaty_override = Nil /\ max_steps = 0 /\ current_step = 0
    /\ agent_profits = <<>> /\ actions = <<>>
    /\ terminated = FALSE /\ truncated = FALSE
    /\ memory = <<>> /\ batch_size = 0

\* reset(treaty_override) (lines 33-35): load_treaties() comes first and raises
\* FileNotFoundError without the file; then treaty_override or
\* random.choice(treaties), where random.choice raises IndexError on an empty
\* list; the value returned is self.current_treaty.
Reset(override) ==
    /\ treaty_override' = override
    /\ IF ~path_exists
       THEN /\ pc' = "reset_raised"
            /\ UNCHANGED treaty
       ELSE IF Truthy(override)
       THEN /\ treaty' = override
            /\ pc' = "reset_done"
       ELSE IF LoadTreaties(treaties) = <<>>
       THEN /\ pc' = "reset_raised"
            /\ UNCHANGED treaty
       ELSE /\ \E i \in DOMAIN treaties : treaty' = LoadTreaties(treaties)[i]
            /\ pc' = "reset_done"
    /\ UNCHANGED <<agents, bidVars, bids, stepVars, kpiVars, portfolioVars, runVars>>
    /\ UNCHANGED <<cfgVars, trainVars, rngVars, ckptVars>>
    /\ UNCHANGED <<path_exists, max_steps, current_step, agent_profits, actions,
                   terminated, truncated, memory, batch_size>>

ResetNext == \E override \in Overrides : Reset(override)

SpecReset == ResetInit /\ [][ResetNext]_vars

\* C24: reset returns the supplied treaty_override whenever one is supplied,
\* whatever its contents and without needing the treaty source, and otherwise a
\* treaty sampled from the source; after each call the current treaty is the
\* one just returned.
C24_ResetReturnsOverride ==
    pc # "reset_idle" =>
        IF treaty_override # Nil
        THEN pc = "reset_done" /\ treaty = treaty_override
        ELSE pc = "reset_done" =>
                \E i \in DOMAIN treaties : treaty = LoadTreaties(treaties)[i]

-----------------------------------------------------------------------------
(* The training loop of src/experiments/train_marl.py, lines 47-76 *)

\* scores = [(b["premium"] - b["expected_loss"]) - 0.2 * b["tail_risk"] for b in
\* bids] (line 66), scaled by 5 to stay in whole dollars: the arg-max is the same.
Scores(bs) ==
    [i \in 1..Len(bs) |-> 5 * (bs[i].premium - bs[i].expected_loss) - bs[i].tail_risk]

\* The quota draw of get_bid is kept at the mean of its normal distribution.
MarlQuotaDraws(agent) == {q \in QuotaDraws(agent) : q.quota = 0}

\* env = TreatyEnv(...), agents = [MARLAgent(i) for i in range(NUM_AGENTS)],
\* portfolio_results_marl = [] (lines 47-50); treaties is not empty (line 39)
MarlInit ==
    /\ pc = "marl_episode"
    /\ treaties = SAMPLE_TREATIES
    /\ \E u \in Draws :
          agents = CreateAgents(TrainAgents, "demo", 100, [i \in 1..TrainAgents |-> u])
    /\ NoTreaty /\ NoBid /\ NoBids /\ NoStep /\ NoKpi /\ NoResults /\ NoRun
    /\ scenarios = <<>> /\ NoTrain /\ NoRng /\ NoCheckpoint /\ NoSim

\* treaty = np.random.choice(treaties); env.reset(treaty_override=treaty)
\* (lines 59-60)
MarlEpisode ==
    /\ pc = "marl_episode"
    /\ ep < MaxTrainEpisodes
    /\ \E i \in DOMAIN treaties :
          /\ treaty_override' = treaties[i]
          /\ treaty' = treaties[i]
    /\ bids' = <<>>
    /\ pc' = "marl_get_bid"
    /\ UNCHANGED <<agents, bidVars, stepVars, kpiVars, portfolioVars, runVars>>
    /\ UNCHANGED <<cfgVars, trainVars, rngVars, ckptVars>>
    /\ UNCHANGED <<path_exists, max_steps, current_step, agent_profits, actions,
                   terminated, truncated, memory, batch_size>>

\* the next agent.get_bid(treaty) of line 63
MarlGetBid ==
    /\ pc = "marl_get_bid"
    /\ \E q \in MarlQuotaDraws(agents[Len(bids) + 1]), d \in OtherDraws :
          bids' = Append(bids, GetBid(agents[Len(bids) + 1], treaty, q, d))
    /\ pc' = IF Len(bids') < Len(agents) THEN "marl_get_bid" ELSE "marl_select"
    /\ UNCHANGED <<agents, treaty, bidVars, stepVars, kpiVars, portfolioVars, runVars>>
    /\ UNCHANGED auxVars

\* winner_idx = int(np.argmax(scores)); kpi = evaluate_bids([bids[winner_idx]],
\* winner_idx=0, treaty=treaty); portfolio_results_marl.append(kpi) (lines 66-71)
MarlSelect ==
    /\ pc = "marl_select"
    /\ winner_idx' = ArgMax(Scores(bids))
    /\ kpi' = EvaluateBids(<<Nth(bids, winner_idx')>>, 0, treaty)
    /\ ungated_kpi' = kpi'
    /\ episode_results' = Append(episode_results, kpi')
    /\ pc' = "marl_update"
    /\ UNCHANGED <<agents, treaty, bidVars, bids, reward, stressed_results, summary,
                   runVars>>
    /\ UNCHANGED auxVars

\* for i, agent in enumerate(agents): agent.update_policy(kpi["profit"] if i ==
\* winner_idx else -kpi["cvar"]) (lines 74-76), and the end of the loop body
MarlUpdate ==
    /\ pc = "marl_update"
    /\ agents' = [i \in 1..Len(agents) |->
                     UpdatePolicy(agents[i], TrainReward(i - 1, winner_idx, kpi))]
    /\ ep' = ep + 1
    /\ pc' = "marl_episode"
    /\ UNCHANGED <<treaty, bidVars, bids, stepVars, kpiVars, portfolioVars, scenario,
                   results_by_scenario>>
    /\ UNCHANGED auxVars

MarlNext ==
    \/ MarlEpisode
    \/ MarlGetBid
    \/ MarlSelect
    \/ MarlUpdate

SpecTrainMarl == MarlInit /\ [][MarlNext]_vars

\* C25: in every orchestrated episode the bid evaluated and rewarded as the
\* winner is the one at the index TreatyEnv.step returns for the episode's bids:
\* the first arg-max of premium - expected_loss.
C25_WinnerIsStepIndex ==
    pc = "marl_update" =>
        /\ winner_idx = StepResult(bids)[1]
        /\ kpi = EvaluateBids(<<Nth(bids, StepResult(bids)[1])>>, 0, treaty)

-----------------------------------------------------------------------------
(* TreatyBiddingEnv, MAPPOAgent's buffer and the episode loop of            *)
(* run_simulation: src/marl_engine/envs/treaty_env.py,                      *)
(* src/marl_engine/agents/mappo_agent.py, src/scripts/03_run_simulation.py  *)
(*                                                                          *)
(* A numpy array is modelled by its shape, a tuple of dimensions; the       *)
(* per-agent reward vector also by its values, in whole dollars.            *)

GymAgents == 2        \* num_agents of the environment
MaxSteps == 3         \* largest max_steps of an environment
SimEpisodes == 2      \* num_episodes of run_simulation

action_dim == 1
DefaultBatchSize == 32

\* numpy broadcasting of two shapes: aligned at the right, a dimension of 1
\* stretches; shapes that do not fit raise ValueError.
PadShape(s, k) == [i \in 1..k |-> IF i <= k - Len(s) THEN 1 ELSE s[i - (k - Len(s))]]

Broadcastable(s, t) ==
    LET k == Max(Len(s), Len(t))
    IN  \A i \in 1..k :
            \/ PadShape(s, k)[i] = PadShape(t, k)[i]
            \/ PadShape(s, k)[i] = 1
            \/ PadShape(t, k)[i] = 1

Broadcast(s, t) ==
    LET k == Max(Len(s), Len(t))
    IN  [i \in 1..k |-> Max(PadShape(s, k)[i], PadShape(t, k)[i])]

\* MAPPOAgent.select_actions (lines 97-104): each actor maps its row of obs to
\* an array of shape (action_dim,); np.array of the num_agents results.
SelectActionsShape(n) == <<n, action_dim>>

\* A sample of env.action_space, Box(shape=(num_agents,)) (treaty_env.py line 46)
ActionSpaceShape(n) == <<n>>

\* The actions a caller hands to env.step.
ActionShapes(n) == {SelectActionsShape(n), ActionSpaceShape(n)}

\* _simulate_market (lines 138-148): win_prob, wins and premiums have the shape
\* of actions; expected_losses = premiums * uniform(size=num_agents);
\* rewards = (premiums - expected_losses) * wins.
MarketRewardsShape(shape, n) == Broadcast(Broadcast(shape, <<n>>), shape)

\* self.agent_profits += rewards (line 91) is an in-place add into an array of
\* shape (num_agents,): it raises ValueError unless the broadcast result of the
\* two operands has that very shape.
ProfitsAddRaises(rewards_shape, n) ==
    \/ ~Broadcastable(<<n>>, rewards_shape)
    \/ Broadcast(<<n>>, rewards_shape) # <<n>>

\* The values one step's reward vector can take.
RewardDraws == {-50000, 100000}

\* np.zeros(num_agents)
Zeros(n) == [i \in 1..n |-> 0]

\* compute_advantages (lines 162-168): the critic's values for a batch of one are
\* squeezed to an array without dimensions, and values[t] then raises IndexError.
UpdateRaises(mem) == Len(mem) = 1

\* MAPPOAgent.update(epochs, batch_size) (lines 118-155), as far as the buffer
\* goes: return at once below batch_size, else train and clear_memory(); an
\* exception while training leaves the buffer as it is.
MappoUpdate(mem, b) == IF Len(mem) < b \/ UpdateRaises(mem) THEN mem ELSE <<>>

\* env = TreatyBiddingEnv(..., max_steps=max_steps); agent = MAPPOAgent(...);
\* results = [] (lines 39-44)
SimInit ==
    /\ pc = "sim_episode"
    /\ max_steps \in 1..MaxSteps
    /\ current_step = 0
    /\ agent_profits = Zeros(GymAgents)
    /\ actions = <<>>
    /\ terminated = FALSE /\ truncated = FALSE
    /\ memory = <<>> /\ batch_size = 0
    /\ path_exists = TRUE /\ treaty_override = Nil
    /\ NoAgents /\ NoTreaty /\ NoBid /\ NoBids /\ NoStep /\ NoKpi /\ NoResults /\ NoRun
    /\ NoConfig /\ NoTrain /\ NoRng /\ NoCheckpoint

\* obs, info = env.reset(); terminated, truncated = False, False (lines 47-48;
\* reset is treaty_env.py lines 63-74)
SimReset ==
    /\ pc = "sim_episode"
    /\ ep < SimEpisodes
    /\ current_step' = 0
    /\ agent_profits' = Zeros(GymAgents)
    /\ terminated' = FALSE
    /\ truncated' = FALSE
    /\ pc' = "sim_step"
    /\ UNCHANGED <<agents, treaty, bidVars, bids, stepVars, kpiVars, portfolioVars, runVars>>
    /\ UNCHANGED <<cfgVars, trainVars, rngVars, ckptVars>>
    /\ UNCHANGED <<path_exists, treaty_override, max_steps, actions, memory, batch_size>>

\* One pass of the while loop (lines 50-60): actions, env.step(actions)
\* (treaty_env.py lines 85-101), agent.store_transition(...).  An exception of
\* step leaves the loop and run_simulation after current_step was incremented.
SimStep ==
    /\ pc = "sim_step"
    /\ ~(terminated \/ truncated)
    /\ current_step' = current_step + 1
    /\ \E shape \in ActionShapes(GymAgents) :
          /\ actions' = [shape |-> shape]
          /\ IF ProfitsAddRaises(MarketRewardsShape(shape, GymAgents), GymAgents)
             THEN /\ pc' = "step_raised"
                  /\ UNCHANGED <<agent_profits, terminated, truncated, memory>>
             ELSE \E r \in [1..GymAgents -> RewardDraws] :
                     /\ agent_profits' = [i \in 1..GymAgents |-> agent_profits[i] + r[i]]
                     /\ terminated' = (current_step' >= max_steps)
                     /\ truncated' = FALSE
                     /\ memory' = Append(memory, [rewards |-> r, dones |-> terminated'])
                     /\ pc' = "sim_step"
    /\ UNCHANGED <<agents, treaty, bidVars, bids, stepVars, kpiVars, portfolioVars, runVars>>
    /\ UNCHANGED <<cfgVars, trainVars, rngVars, ckptVars>>
    /\ UNCHANGED <<path_exists, treaty_override, max_steps, batch_size>>

\* agent.update(epochs=train_epochs) with the default batch_size, and
\* results.append(...) (lines 63-74)
SimEndEpisode ==
    /\ pc = "sim_step"
    /\ terminated \/ truncated
    /\ batch_size' = DefaultBatchSize
    /\ memory' = MappoUpdate(memory, DefaultBatchSize)
    /\ ep' = ep + 1
    /\ pc' = "sim_episode"
    /\ UNCHANGED <<agents, treaty, bidVars, bids, stepVars, kpiVars, portfolioVars,
                   scenario, results_by_scenario>>
    /\ UNCHANGED <<cfgVars, trainVars, rngVars, ckptVars>>
    /\ UNCHANGED <<path_exists, treaty_override, max_steps, current_step, agent_profits,
                   actions, terminated, truncated>>

\* the end of the for loop and return df_results (lines 76-82)
SimReturn ==
    /\ pc = "sim_episode"
    /\ ep >= SimEpisodes
    /\ pc' = "sim_done"
    /\ UNCHANGED <<agents, treaty, bidVars, bids, stepVars, kpiVars, portfolioVars, runVars>>
    /\ UNCHANGED auxVars

SimNext ==
    \/ SimReset
    \/ SimStep
    \/ SimEndEpisode
    \/ SimReturn

SpecSim == SimInit /\ [][SimNext]_vars

\* C29: with max_steps >= 1, reset sets current_step to 0 and agent_profits to
\* zero, each step increases current_step by exactly 1 and adds the step's
\* rewards to agent_profits, step returns terminated = true exactly when
\* current_step >= max_steps and truncated always false, and the episode loop of
\* run_simulation performs exactly max_steps steps per episode and terminates.
C29_EpisodeRunsMaxSteps ==
    /\ pc # "step_raised"
    /\ truncated = FALSE
    /\ current_step <= max_steps
    /\ (pc = "sim_step" /\ current_step > 0) => (terminated <=> current_step >= max_steps)
    /\ (pc = "sim_episode" /\ ep > 0) => current_step = max_steps
    /\ Len(agent_profits) = GymAgents

-----------------------------------------------------------------------------
(* MAPPOAgent's experience buffer under any caller:                         *)
(* src/marl_engine/agents/mappo_agent.py lines 84, 109-155                  *)

MaxMemory == 4        \* most transitions stored between two updates
MaxBatch == 3         \* largest batch_size handed to update

\* The transitions a caller stores: the reward vector and the done flag.
Transitions ==
    [rewards : {[i \in 1..GymAgents |-> r] : r \in RewardDraws}, dones : BOOLEAN]

\* self.memory = [] (line 84)
MappoInit ==
    /\ pc = "mappo_idle"
    /\ memory = <<>>
    /\ batch_size = 0
    /\ path_exists = TRUE /\ treaty_override = Nil
    /\ max_steps = 0 /\ current_step = 0 /\ agent_profits = <<>> /\ actions = <<>>
    /\ terminated = FALSE /\ truncated = FALSE
    /\ NoAgents /\ NoTreaty /\ NoBid /\ NoBids /\ NoStep /\ NoKpi /\ NoResults /\ NoRun
    /\ NoConfig /\ NoTrain /\ NoRng /\ NoCheckpoint

\* store_transition(obs, actions, rewards, next_obs, dones) (lines 109-110)
StoreTransition ==
    /\ pc # "update_raised"
    /\ Len(memory) < MaxMemory
    /\ \E x \in Transitions : memory' = Append(memory, x)
    /\ pc' = "stored"
    /\ UNCHANGED <<agents, treaty, bidVars, bids, stepVars, kpiVars, portfolioVars, runVars>>
    /\ UNCHANGED <<cfgVars, trainVars, rngVars, ckptVars>>
    /\ UNCHANGED <<path_exists, treaty_override, max_steps, current_step, agent_profits,
                   actions, terminated, truncated, batch_size>>

\* update(epochs, batch_size=b) (lines 118-155)
Update ==
    /\ pc # "update_raised"
    /\ \E b \in 1..MaxBatch :
          /\ batch_size' = b
          /\ memory' = MappoUpdate(memory, b)
          /\ pc' = IF Len(memory) < b THEN "skipped"
                   ELSE IF UpdateRaises(memory) THEN "update_raised"
                   ELSE "trained"
    /\ UNCHANGED <<agents, treaty, bidVars, bids, stepVars, kpiVars, portfolioVars, runVars>>
    /\ UNCHANGED <<cfgVars, trainVars, rngVars, ckptVars>>
    /\ UNCHANGED <<path_exists, treaty_override, max_steps, current_step, agent_profits,
                   actions, terminated, truncated>>

MappoNext == StoreTransition \/ Update

SpecMappo == MappoInit /\ [][MappoNext]_vars

\* The buffer after a call of update.
C30_AfterUpdate ==
    pc \in {"skipped", "trained", "update_raised"} => Len(memory) < batch_size

\* How one call changes the buffer.
C30_BufferStep ==
    \/ \E x \in Transitions : memory' = Append(memory, x)
    \/ Len(memory) < batch_size' /\ memory' = memory
    \/ Len(memory) >= batch_size' /\ memory' = <<>>

\* C30: the buffer is emptied exactly when an update trains on it:
\* update(batch_size=b) leaves memory unchanged when it holds fewer than b
\* transitions and otherwise ends with memory empty, so after every update
\* len(memory) < b; between updates memory grows by exactly one per
\* store_transition, and no transition is dropped before an update used it.
C30_BufferEmptiedByTrainingUpdate == [](C30_AfterUpdate) /\ [][C30_BufferStep]_vars

=============================================================================
